---- MODULE Spec2Model ----
(***************************************************************************)
(* A model of the pybench benchmark orchestrator: the comparison-status    *)
(* classification, the aggregation of per-version series against the      *)
(* baseline version (benchmark_runner.py), the interpreter wrapper         *)
(* (benchmarks/environment.py) and the test selection of run_all.          *)
(*                                                                         *)
(* Conventions.  A Python str that the code slices or searches is a        *)
(* sequence of tokens ("3.13.0t" is <<"3.13.0", "t">>).  A float is an     *)
(* exact rational <<numerator, denominator>> with a positive denominator.  *)
(* A dict is the sequence of its entries in insertion order.  An Optional  *)
(* is None (the empty sequence) or a non-empty value.  A call that can     *)
(* raise returns [exc |-> name of the exception or "", ...].               *)
(***************************************************************************)
EXTENDS Integers, Sequences, FiniteSets, TLC

VARIABLES
    \* _determine_performance_status: its arguments and its return value
    relative_perf, is_scaling, status,
    \* _process_scaling_results / _process_benchmark_results
    test_type, version_results, called, processed,
    \* PythonEnvironment: the versions pyenv lists, which subprocesses of the
    \* constructor succeeded, the object, what the last child process did and
    \* what run_benchmark returned for it
    pyenv_versions, constructor_io, env, child_run, bench_result,
    \* the runner: the test files on disk, the --tests argument, the test_filter
    \* attribute, and the progress of run_all
    test_files, args_tests, has_test_filter, test_filter,
    pc, discovered_tests, total_tests, position, results, suite,
    \* _run_scaling_test: self.iterations, where the two loops stand, what the
    \* child processes of the current environment did, the two lists of the
    \* current environment, the results dict and what the method returned
    iterations, scaling_pc, env_position, iteration, iteration_log,
    env_results, scaling_data_, run_results, scaling_returned,
    \* ParallelMap and Pipeline (workload/fib): the number of workers, the input
    \* list, the two queues with the input queue's count of unfinished tasks,
    \* where each worker thread stands and the item it holds, where the calling
    \* thread stands in its current loop, the results it collected and what
    \* it returned
    num_workers, input_items, input_queue, unfinished_tasks, output_queue,
    worker_pc, work_item, main_pc, main_i, collected, pool_returned,
    \* the high-contention test of core/synchronization/test_lock_patterns.py:
    \* whether shared_lock is held, shared_counter, where each worker stands, the
    \* passes of its loop it has made, its local_count, the value of
    \* shared_counter it has read, the results queue, total_count, and where
    \* main stands
    shared_lock, shared_counter, hc_pc, hc_pass, local_count, hc_read,
    hc_results, total_count, hc_main,
    \* core/memory_ordering/test_memory_barrier.py: data[0], the last value the
    \* producer's counter gave, the two events, where the producer and the
    \* consumer stand, the consumer's last_seen and reads, whether the
    \* consumer's deadline has passed, where main stands and what it returned
    data0, produced, done, success, producer_pc, consumer_pc, last_seen, reads,
    deadline_passed, barrier_main, barrier_exit,
    \* memory/ref_counting/test_cross_thread.py: the number of objects in
    \* shared_queue, each producer's produced and each consumer's consumed,
    \* where each thread stands, the three events and where main stands
    shared_queue, xt_produced, xt_consumed, xt_producer, xt_consumer,
    producer_done, consumer_done, stop_signal, xt_main,
    \* scripts/update_index.py: whether the index file exists, the rows of its
    \* table after the header row, and the rows extract_existing_runs read
    \* with what it returned
    index_exists, index_rows, extracted, index_calls,
    \* the thread configuration of the runner: os.environ, the number of CPUs
    \* the process may use, the --threads argument, how far the program is, the
    \* runner's num_threads, thread_limit and total_threads, and os.environ as it
    \* was when _set_thread_limits was called
    environ, cpu_count, args_threads, thread_pc, num_threads, thread_limit,
    total_threads, environ_before,
    \* what get_available_cores() and get_total_threads() return in a workload
    available_cores, workload_threads,
    \* one scaling workload under benchmarks/scaling: which one ran, the
    \* document it printed on success, what _run_scaling_test made of it, and
    \* how far the run is
    workload, workload_document, workload_result, workload_pc,
    \* the results file benchmark_runner writes with --report json, and what
    \* create_benchmark_page made of it
    report_file, page,
    \* benchmarks/tests/gil/test_lock_patterns.py: the phase main runs, the
    \* locks that are held, results, and of each worker thread where it
    \* stands, the passes it has made and the value it read for its +=
    gil_phase, gil_locks, gil_results, gil_pc, gil_count, gil_read,
    \* which of the two fib workloads runs on the pool variables:
    \* ParallelMap.map or Pipeline.process
    pool_kind,
    \* the parallel-processing workloads: the workload, main's position,
    \* the index process_chunk is at, the chunk's end, the item stored
    \* last in the result array, the exception raised
    array_workload, array_pc, array_i, array_end, array_results, array_error,
    \* the object-churn scaling workloads: the workload, main's position,
    \* the baseline's counts, the index into thread_counts, the workers
    \* that have finished, the reference assignments they performed, the
    \* test results
    churn_workload, churn_pc, churn_baseline, churn_k, churn_finished, churn_performed, churn_tests,
    \* pagerank_threaded: the call's arguments, main's position, the
    \* iterations made, scores, new_scores, the holder of the lock, and of
    \* each chunk's worker where it stands and its local_scores
    pr_input, pr_main, pr_iter, pr_scores, pr_new_scores, pr_lock, pr_pc, pr_local

statusVars == <<relative_perf, is_scaling, status>>
processVars == <<test_type, version_results, called, processed>>
envVars == <<pyenv_versions, constructor_io, env, child_run, bench_result>>
runVars == <<test_files, args_tests, has_test_filter, test_filter,
             pc, discovered_tests, total_tests, position, results, suite>>
scalingVars == <<iterations, scaling_pc, env_position, iteration, iteration_log,
                 env_results, scaling_data_, run_results, scaling_returned>>
coreVars == <<statusVars, processVars, envVars, runVars>>
\* the variables of the parts modelled after the runner's core
poolVars == <<num_workers, input_items, input_queue, unfinished_tasks, output_queue,
              worker_pc, work_item, main_pc, main_i, collected, pool_returned>>
lockVars == <<shared_lock, shared_counter, hc_pc, hc_pass, local_count, hc_read,
              hc_results, total_count, hc_main>>
barrierVars == <<data0, produced, done, success, producer_pc, consumer_pc,
                 last_seen, reads, deadline_passed, barrier_main, barrier_exit>>
crossVars == <<shared_queue, xt_produced, xt_consumed, xt_producer, xt_consumer,
               producer_done, consumer_done, stop_signal, xt_main>>
indexVars == <<index_exists, index_rows, extracted, index_calls>>
threadVars == <<environ, cpu_count, args_threads, thread_pc, num_threads,
                thread_limit, total_threads, environ_before,
                available_cores, workload_threads>>
workloadVars ==
    <<workload, workload_document, workload_result, workload_pc>>
reportVars ==
    <<report_file, page>>
gilVars ==
    <<gil_phase, gil_locks, gil_results, gil_pc, gil_count, gil_read>>
kindVars ==
    <<pool_kind>>
arrayVars ==
    <<array_workload, array_pc, array_i, array_end, array_results,
      array_error>>
churnVars ==
    <<churn_workload, churn_pc, churn_baseline, churn_k, churn_finished,
      churn_performed, churn_tests>>
pagerankVars ==
    <<pr_input, pr_main, pr_iter, pr_scores, pr_new_scores, pr_lock, pr_pc,
      pr_local>>
laterVars ==
    <<scalingVars, poolVars, lockVars, barrierVars, crossVars, indexVars,
      threadVars, workloadVars, reportVars, gilVars, kindVars, arrayVars,
      churnVars, pagerankVars>>
\* what the actions of one part leave unchanged of the other parts
scalingFrame ==
    <<coreVars, poolVars, lockVars, barrierVars, crossVars, indexVars,
      threadVars, workloadVars, reportVars, gilVars, kindVars, arrayVars,
      churnVars, pagerankVars>>
poolFrame ==
    <<coreVars, scalingVars, lockVars, barrierVars, crossVars, indexVars,
      threadVars, workloadVars, reportVars, gilVars, kindVars, arrayVars,
      churnVars, pagerankVars>>
lockFrame ==
    <<coreVars, scalingVars, poolVars, barrierVars, crossVars, indexVars,
      threadVars, workloadVars, reportVars, gilVars, kindVars, arrayVars,
      churnVars, pagerankVars>>
barrierFrame ==
    <<coreVars, scalingVars, poolVars, lockVars, crossVars, indexVars,
      threadVars, workloadVars, reportVars, gilVars, kindVars, arrayVars,
      churnVars, pagerankVars>>
crossFrame ==
    <<coreVars, scalingVars, poolVars, lockVars, barrierVars, indexVars,
      threadVars, workloadVars, reportVars, gilVars, kindVars, arrayVars,
      churnVars, pagerankVars>>
indexFrame ==
    <<coreVars, scalingVars, poolVars, lockVars, barrierVars, crossVars,
      threadVars, workloadVars, reportVars, gilVars, kindVars, arrayVars,
      churnVars, pagerankVars>>
threadFrame ==
    <<coreVars, scalingVars, poolVars, lockVars, barrierVars, crossVars,
      indexVars, workloadVars, reportVars, gilVars, kindVars, arrayVars,
      churnVars, pagerankVars>>
workloadFrame ==
    <<coreVars, scalingVars, poolVars, lockVars, barrierVars, crossVars,
      indexVars, threadVars, reportVars, gilVars, kindVars, arrayVars,
      churnVars, pagerankVars>>
reportFrame ==
    <<coreVars, scalingVars, poolVars, lockVars, barrierVars, crossVars,
      indexVars, threadVars, workloadVars, gilVars, kindVars, arrayVars,
      churnVars, pagerankVars>>
gilFrame ==
    <<coreVars, scalingVars, poolVars, lockVars, barrierVars, crossVars,
      indexVars, threadVars, workloadVars, reportVars, kindVars, arrayVars,
      churnVars, pagerankVars>>
kindFrame ==
    <<coreVars, scalingVars, poolVars, lockVars, barrierVars, crossVars,
      indexVars, threadVars, workloadVars, reportVars, gilVars, arrayVars,
      churnVars, pagerankVars>>
arrayFrame ==
    <<coreVars, scalingVars, poolVars, lockVars, barrierVars, crossVars,
      indexVars, threadVars, workloadVars, reportVars, gilVars, kindVars,
      churnVars, pagerankVars>>
churnFrame ==
    <<coreVars, scalingVars, poolVars, lockVars, barrierVars, crossVars,
      indexVars, threadVars, workloadVars, reportVars, gilVars, kindVars,
      arrayVars, pagerankVars>>
pagerankFrame ==
    <<coreVars, scalingVars, poolVars, lockVars, barrierVars, crossVars,
      indexVars, threadVars, workloadVars, reportVars, gilVars, kindVars,
      arrayVars, churnVars>>
vars == <<coreVars, laterVars>>

(***************************************************************************)
(* Bounds of the model.                                                    *)
(***************************************************************************)
\* relative-performance arguments range over 0, 1/2, 1, ..., MaxPerfNum/2 percent
MaxPerfNum == 240
\* the longest series of iterations of one version
MaxIter == 2
\* the runner's iterations per version (--iterations)
RunnerIterations == 1
\* the most names given to --tests
MaxTestsArgs == 1
\* the most worker threads of a ParallelMap or a Pipeline
MaxWorkers == 2
\* the longest input list of ParallelMap.map and Pipeline.process
MaxItems == 2
\* the passes of a high-contention worker's loop (iterations = 10_000 in the
\* code) and the number of workers (num_threads = 4 in the code), scaled down
LockIterations == 2
LockThreads == 3
\* the new values the memory-barrier consumer waits for (iterations = 100 in
\* the code), scaled down, and the most values the producer writes
BarrierIterations == 2
MaxProduced == 3
\* the cross-thread workload: the objects each producer makes (iterations =
\* 100_000 in the code), the producer-consumer pairs (total_threads // 2) and
\* the capacity of shared_queue (100 to 1000 in the code), scaled down
CrossIterations == 2
CrossPairs == 2
CrossQueueSize == 1
\* the most rows update_index_page adds to the index
MaxRuns == 2
\* the most CPUs the runner's process may use
MaxCpus == 2
\* iterations of the GIL lock-pattern workload (100_000 in the code)
GilIterations == 2
\* get_total_threads() of the GIL lock-pattern workload
GilThreads == 2
\* how many of a scaling workload's thread counts are modelled
MaxThreadCounts == 2
\* the capacity of a Pipeline's input queue (maxsize=100 in the code), scaled
\* down with the input lists so that the calling thread meets a full queue
InputQueueMaxSize == 2

(***************************************************************************)
(* Python values.                                                          *)
(***************************************************************************)
None == <<>>

\* float arithmetic on exact rationals
RatLT(a, b) == a[1] * b[2] < b[1] * a[2]
RatGT(a, b) == RatLT(b, a)
Int2Rat(k) == <<k, 1>>

RECURSIVE SumSeq(_)
SumSeq(s) == IF s = <<>> THEN 0 ELSE Head(s) + SumSeq(Tail(s))

SeqMin(s) == CHOOSE x \in {s[i] : i \in DOMAIN s} : \A j \in DOMAIN s : x <= s[j]
SeqMax(s) == CHOOSE x \in {s[i] : i \in DOMAIN s} : \A j \in DOMAIN s : x >= s[j]

\* sequences over S of length lo..hi
SeqsOf(S, lo, hi) == UNION {[1..n -> S] : n \in lo..hi}

\* str.startswith, str.endswith, `sub in s` on token sequences
StartsWith(s, p) == Len(p) <= Len(s) /\ SubSeq(s, 1, Len(p)) = p
EndsWith(s, p) == Len(p) <= Len(s) /\ SubSeq(s, Len(s) - Len(p) + 1, Len(s)) = p
Contains(sub, s) ==
    \E i \in 0..(Len(s) - Len(sub)) : SubSeq(s, i + 1, i + Len(sub)) = sub

(***************************************************************************)
(* BenchmarkRunner class constants.                                        *)
(***************************************************************************)
V3127 == <<"3.12.7">>
V3130 == <<"3.13.0">>
V3130t == <<"3.13.0", "t">>
PYTHON_VERSIONS == <<V3127, V3130, V3130t>>
BASELINE_VERSION == V3127

(***************************************************************************)
(* _determine_performance_status                                           *)
(***************************************************************************)
\* a plausible slip: the regular-test sense (lower is better) used for scaling too
DetermineStatusIgnoringScaling(p, scaling) ==
    IF RatLT(p, Int2Rat(90)) THEN "improved"
    ELSE IF RatGT(p, Int2Rat(110)) THEN "degraded"
    ELSE "similar"

_determine_performance_status(p, scaling) ==
    IF scaling
    THEN IF RatGT(p, Int2Rat(110)) THEN "improved"
         ELSE IF RatLT(p, Int2Rat(90)) THEN "degraded"
         ELSE "similar"
    ELSE IF RatLT(p, Int2Rat(90)) THEN "improved"
         ELSE IF RatGT(p, Int2Rat(110)) THEN "degraded"
         ELSE "similar"

(***************************************************************************)
(* dict helpers: a dict is the sequence of its [key, value] entries.       *)
(***************************************************************************)
DictKeys(d) == [i \in DOMAIN d |-> d[i].key]
DictHas(d, k) == \E i \in DOMAIN d : d[i].key = k
DictGet(d, k) == d[CHOOSE i \in DOMAIN d : d[i].key = k].value
DictSet(d, k, v) ==
    IF DictHas(d, k)
    THEN [i \in DOMAIN d |-> IF d[i].key = k THEN [key |-> k, value |-> v] ELSE d[i]]
    ELSE Append(d, [key |-> k, value |-> v])

Last(s) == s[Len(s)]

(***************************************************************************)
(* StatisticalResult, as both processing functions compute it.             *)
(* statistics.mean raises StatisticsError on an empty series.              *)
(***************************************************************************)
RECURSIVE Insert(_, _)
Insert(x, s) ==
    IF s = <<>> THEN <<x>>
    ELSE IF x <= Head(s) THEN <<x>> \o s
    ELSE <<Head(s)>> \o Insert(x, Tail(s))

RECURSIVE Sorted(_)
Sorted(s) == IF s = <<>> THEN <<>> ELSE Insert(Head(s), Sorted(Tail(s)))

Mean(durations) == <<SumSeq(durations), Len(durations)>>

Median(durations) ==
    LET s == Sorted(durations)
        n == Len(s)
    IN  IF n % 2 = 1 THEN <<s[(n + 1) \div 2], 1>>
        ELSE <<s[n \div 2] + s[n \div 2 + 1], 2>>

\* the square of statistics.stdev: the sample variance, 0 for a single value
Variance(durations) ==
    LET n == Len(durations)
        sq == [i \in DOMAIN durations |-> durations[i] * durations[i]]
    IN  IF n > 1
        THEN <<n * SumSeq(sq) - SumSeq(durations) * SumSeq(durations), n * (n - 1)>>
        ELSE <<0, 1>>

ComputeStats(durations) ==
    IF durations = <<>>
    THEN [exc |-> "StatisticsError"]
    ELSE [exc |-> "",
          mean |-> Mean(durations),
          median |-> Median(durations),
          variance |-> Variance(durations),
          min |-> SeqMin(durations),
          max |-> SeqMax(durations),
          iterations |-> durations]

(***************************************************************************)
(* f"{relative_perf:.2f}%": the number of hundredths nearest to the exact   *)
(* value (ties to the even one), followed by the percent sign.             *)
(***************************************************************************)
Format2fPercent(r) ==
    LET n == r[1] * 100
        q == n \div r[2]
        rem2 == 2 * (n % r[2])
        h == IF rem2 > r[2] \/ (rem2 = r[2] /\ q % 2 = 1) THEN q + 1 ELSE q
    IN  <<h, "%">>

\* (a / b) * 100
PercentOf(a, b) == <<a[1] * b[2] * 100, a[2] * b[1]>>

\* dict.get(key, default) on a record
GetOr(rec, k, default) == IF k \in DOMAIN rec THEN rec[k] ELSE default

(***************************************************************************)
(* _process_scaling_results                                                *)
(***************************************************************************)
Raise(acc, e) == [acc EXCEPT !.exc = e]

\* the guard "if not durations or not scaling_data: continue"
NeverSkip(durations, scaling_data) == FALSE

SkipScalingVersion(durations, scaling_data) ==
    durations = <<>> \/ scaling_data = <<>>

ScalingDataPoints(latest_run) ==
    [i \in DOMAIN latest_run.scaling_tests |->
        LET test == latest_run.scaling_tests[i]
        IN  [thread_count |-> test.threads,
             duration |-> test.duration,
             throughput |-> GetOr(test, "ops_per_sec", 0),
             cpu_usage |-> GetOr(test, "cpu_usage", 0),
             memory_usage |-> GetOr(test, "memory_usage", 0)]]

\* a plausible slip: the first entry of scaling_tests read instead of the last
NewScalingResultFromFirstTest(version, stats, latest_run, baseline_version) ==
    LET max_test == latest_run.scaling_tests[1]
    IN  [status |-> IF version = baseline_version THEN "baseline" ELSE "comparison",
         base_duration |-> stats.mean,
         scaling_factor |-> max_test.speedup,
         max_threads |-> max_test.threads,
         efficiency |-> <<max_test.speedup, max_test.threads>>,
         relative_performance |-> None,
         statistical_data |-> stats,
         scaling_data |-> ScalingDataPoints(latest_run)]

NewScalingResult(version, stats, latest_run, baseline_version) ==
    LET max_test == Last(latest_run.scaling_tests)
    IN  [status |-> IF version = baseline_version THEN "baseline" ELSE "comparison",
         base_duration |-> stats.mean,
         scaling_factor |-> max_test.speedup,
         max_threads |-> max_test.threads,
         efficiency |-> <<max_test.speedup, max_test.threads>>,
         relative_performance |-> None,
         statistical_data |-> stats,
         scaling_data |-> ScalingDataPoints(latest_run)]

\* a plausible slip: the placeholder of _process_benchmark_results (100.00% when
\* there is no baseline) carried over to the scaling results
ScalingRelativeWithPlaceholder(baseline_stats, scaling_result) ==
    IF baseline_stats # None
    THEN LET relative_perf_ == <<scaling_result.scaling_factor * 100,
                                 baseline_stats[1].scaling_factor>>
         IN  [scaling_result EXCEPT
                 !.relative_performance = Format2fPercent(relative_perf_),
                 !.status = _determine_performance_status(relative_perf_, TRUE)]
    ELSE [scaling_result EXCEPT !.relative_performance = Format2fPercent(<<100, 1>>)]

\* the "else" branch: the relative performance of a non-baseline version
ScalingRelative(baseline_stats, scaling_result) ==
    IF baseline_stats # None
    THEN LET relative_perf_ == <<scaling_result.scaling_factor * 100,
                                 baseline_stats[1].scaling_factor>>
         IN  [scaling_result EXCEPT
                 !.relative_performance = Format2fPercent(relative_perf_),
                 !.status = _determine_performance_status(relative_perf_, TRUE)]
    ELSE scaling_result

\* one pass of "for version, data in version_results.items()"
ScalingLoopBody(acc, version, data, baseline_version) ==
    IF acc.exc # "" THEN acc
    ELSE IF SkipScalingVersion(data.durations, data.scaling_data) THEN acc
    ELSE LET stats == ComputeStats(data.durations)
             latest_run == Last(data.scaling_data)
         IN  IF stats.exc # "" THEN Raise(acc, stats.exc)
             ELSE IF "scaling_tests" \notin DOMAIN latest_run
                  THEN Raise(acc, "KeyError")
             ELSE IF latest_run.scaling_tests = <<>> THEN Raise(acc, "IndexError")
             ELSE IF {"speedup", "threads"} \ DOMAIN Last(latest_run.scaling_tests) # {}
                  THEN Raise(acc, "KeyError")
             ELSE IF Last(latest_run.scaling_tests).threads = 0
                  THEN Raise(acc, "ZeroDivisionError")
             ELSE IF \E i \in DOMAIN latest_run.scaling_tests :
                         {"threads", "duration"} \ DOMAIN latest_run.scaling_tests[i] # {}
                  THEN Raise(acc, "KeyError")
             ELSE LET scaling_result ==
                          NewScalingResult(version, stats, latest_run, baseline_version)
                  IN  IF version = baseline_version
                      THEN [acc EXCEPT
                              !.baseline_stats = <<scaling_result>>,
                              !.processed_results = DictSet(@, version, scaling_result)]
                      ELSE IF acc.baseline_stats # None
                              /\ acc.baseline_stats[1].scaling_factor = 0
                           THEN Raise(acc, "ZeroDivisionError")
                      ELSE [acc EXCEPT
                              !.processed_results =
                                  DictSet(@, version,
                                          ScalingRelative(acc.baseline_stats, scaling_result))]

RECURSIVE ScalingLoop(_, _, _)
ScalingLoop(acc, items, baseline_version) ==
    IF items = <<>> THEN acc
    ELSE ScalingLoop(ScalingLoopBody(acc, Head(items).key, Head(items).value,
                                     baseline_version),
                     Tail(items), baseline_version)

_process_scaling_results(results_in, baseline_version) ==
    LET acc == ScalingLoop([exc |-> "", processed_results |-> <<>>,
                            baseline_stats |-> None],
                           results_in, baseline_version)
    IN  [exc |-> acc.exc,
         returned |-> IF acc.exc = "" THEN acc.processed_results ELSE <<>>]

(***************************************************************************)
(* _process_benchmark_results                                              *)
(***************************************************************************)
\* the guard "if not durations: continue"
SkipVersion(durations) == durations = <<>>

\* relative_perf and perf_status of a non-baseline version
BenchmarkRelative(baseline_stats, stats) ==
    IF baseline_stats # None
    THEN LET relative_perf_ == PercentOf(stats.mean, baseline_stats[1].mean)
         IN  [relative_perf |-> relative_perf_,
              perf_status |-> _determine_performance_status(relative_perf_, FALSE)]
    ELSE [relative_perf |-> <<100, 1>>, perf_status |-> "no_baseline"]

RegularBenchmarkResult(status_, duration, relative_performance, statistical_data) ==
    [status |-> status_,
     duration |-> duration,
     relative_performance |-> relative_performance,
     statistical_data |-> statistical_data]

\* one pass of "for version, data in version_results.items()".  With test_type
\* "scaling" the call of _process_scaling_result passes four arguments to a method
\* that takes three, which raises TypeError.
BenchmarkLoopBody(acc, version, data, type, baseline_version) ==
    IF acc.exc # "" THEN acc
    ELSE LET durations == IF type = "regular" THEN data ELSE data.durations
         IN  IF SkipVersion(durations) THEN acc
             ELSE LET stats == ComputeStats(durations)
                  IN  IF stats.exc # "" THEN Raise(acc, stats.exc)
                      ELSE IF version = baseline_version
                      THEN IF type = "regular"
                           THEN [acc EXCEPT
                                   !.baseline_stats = <<stats>>,
                                   !.processed_results =
                                       DictSet(@, version,
                                               RegularBenchmarkResult(
                                                   "baseline", stats.mean, None, stats))]
                           ELSE Raise(acc, "TypeError")
                      ELSE IF acc.baseline_stats # None
                              /\ acc.baseline_stats[1].mean[1] = 0
                           THEN Raise(acc, "ZeroDivisionError")
                      ELSE LET rel == BenchmarkRelative(acc.baseline_stats, stats)
                           IN  IF type = "regular"
                               THEN [acc EXCEPT
                                       !.processed_results =
                                           DictSet(@, version,
                                                   RegularBenchmarkResult(
                                                       rel.perf_status, stats.mean,
                                                       Format2fPercent(rel.relative_perf),
                                                       stats))]
                               ELSE Raise(acc, "TypeError")

RECURSIVE BenchmarkLoop(_, _, _, _)
BenchmarkLoop(acc, items, type, baseline_version) ==
    IF items = <<>> THEN acc
    ELSE BenchmarkLoop(BenchmarkLoopBody(acc, Head(items).key, Head(items).value,
                                         type, baseline_version),
                       Tail(items), type, baseline_version)

_process_benchmark_results(results_in, type, baseline_version) ==
    IF results_in = <<>>
    THEN [exc |-> "", returned |-> <<>>]
    ELSE LET acc == BenchmarkLoop([exc |-> "", processed_results |-> <<>>,
                                   baseline_stats |-> None],
                                  results_in, type, baseline_version)
         IN  [exc |-> acc.exc,
              returned |-> IF acc.exc = "" THEN acc.processed_results ELSE <<>>]

(***************************************************************************)
(* Inputs of the processing functions.                                     *)
(***************************************************************************)
\* JSON documents a scaling workload prints: at two threads the first does not
\* scale (speedup 1), the second scales linearly (speedup 2)
FlatOutput ==
    [metadata |-> [test_name |-> "scaling"],
     baseline |-> [duration |-> 1],
     scaling_tests |->
        << [threads |-> 1, duration |-> 1, speedup |-> 1, ops_per_sec |-> 4],
           [threads |-> 2, duration |-> 1, speedup |-> 1, ops_per_sec |-> 4] >>]
LinearOutput ==
    [metadata |-> [test_name |-> "scaling"],
     baseline |-> [duration |-> 2],
     scaling_tests |->
        << [threads |-> 1, duration |-> 2, speedup |-> 1],
           [threads |-> 2, duration |-> 1, speedup |-> 2] >>]
SampleOutputs == {FlatOutput, LinearOutput}

\* wall-clock durations of a regular test, in seconds
SampleDurations == {1, 2}

\* what _run_scaling_test keeps of a version's successful iterations
ScalingEntry(outputs) ==
    [durations |-> [i \in DOMAIN outputs |-> outputs[i].baseline.duration],
     scaling_data |-> outputs]

RegularData == SeqsOf(SampleDurations, 0, MaxIter)
ScalingData == {ScalingEntry(o) : o \in SeqsOf(SampleOutputs, 0, MaxIter)}

Versions == {PYTHON_VERSIONS[i] : i \in DOMAIN PYTHON_VERSIONS}
VersionOrders ==
    {o \in SeqsOf(Versions, 0, Len(PYTHON_VERSIONS)) :
        \A i, j \in DOMAIN o : i # j => o[i] # o[j]}

\* every dict from some of the versions, in any order, to values of DataSet
Mappings(DataSet) ==
    UNION {{[i \in DOMAIN o |-> [key |-> o[i], value |-> f[i]]] :
                f \in [DOMAIN o -> DataSet]} : o \in VersionOrders}

(***************************************************************************)
(* PythonEnvironment (benchmarks/environment.py)                           *)
(***************************************************************************)
\* What the interpreter installed under a pyenv name prints for sys.version and
\* for sysconfig.get_config_var("Py_GIL_DISABLED").
Interpreter(name) ==
    IF name = V3130t
    THEN [version |-> <<"3.13.0", " experimental free-threading build">>,
          gil_disabled |-> "1"]
    ELSE IF name = V3130
    THEN [version |-> <<"3.13.0", " (main)">>, gil_disabled |-> "0"]
    ELSE [version |-> <<"3.12.7", " (main)">>, gil_disabled |-> "None"]

\* next((v for v in available_versions if v.startswith(version)), None)
MatchingVersion(available_versions, version) ==
    LET hits == {i \in DOMAIN available_versions :
                    StartsWith(available_versions[i], version)}
    IN  IF hits = {} THEN None
        ELSE <<available_versions[CHOOSE i \in hits : \A j \in hits : i <= j]>>

\* _get_python_path: the interpreter of the first pyenv version whose name
\* starts with the requested version; every failure (a pyenv command failing,
\* no matching version, no executable: ~pyenv_ok) becomes RuntimeError
_get_python_path(available_versions, version, pyenv_ok) ==
    LET matching_version == MatchingVersion(available_versions, version)
    IN  IF ~pyenv_ok \/ matching_version = None
        THEN [exc |-> "RuntimeError", path |-> None]
        ELSE [exc |-> "", path |-> matching_version]

\* a plausible slip: the check of a "t" version against the interpreter left out
ValidateVersionOnly(version, path, probe_ok) ==
    LET base_version == IF ~EndsWith(version, <<"t">>) THEN version
                        ELSE SubSeq(version, 1, Len(version) - 1)
    IN  IF ~probe_ok THEN "RuntimeError"
        ELSE IF ~Contains(base_version, Interpreter(path).version) THEN "RuntimeError"
        ELSE ""

\* _validate_interpreter: the exception it raises, "" when it returns
_validate_interpreter(version, path, probe_ok) ==
    LET gil_disabled == Interpreter(path).gil_disabled = "1"
        base_version == IF ~EndsWith(version, <<"t">>) THEN version
                        ELSE SubSeq(version, 1, Len(version) - 1)
    IN  IF ~probe_ok THEN "RuntimeError"
        ELSE IF EndsWith(version, <<"t">>) /\ ~gil_disabled THEN "RuntimeError"
        ELSE IF ~Contains(base_version, Interpreter(path).version) THEN "RuntimeError"
        ELSE ""

\* _check_free_threading: False when the probe fails
_check_free_threading(path, probe_ok) ==
    IF probe_ok THEN Interpreter(path).gil_disabled = "1" ELSE FALSE

NoEnvironment ==
    [exc |-> "", constructed |-> FALSE, version |-> None, path |-> None,
     is_free_threaded |-> FALSE]

\* PythonEnvironment.__init__(version, path); io tells which of the subprocesses
\* it starts succeed
PythonEnvironment(available_versions, version, path_arg, io) ==
    LET found == IF path_arg # None THEN [exc |-> "", path |-> path_arg]
                 ELSE _get_python_path(available_versions, version, io.pyenv_ok)
        failed(e) == [NoEnvironment EXCEPT !.exc = e, !.version = version]
    IN  IF found.exc # "" THEN failed(found.exc)
        ELSE LET path == found.path[1]
                 invalid == _validate_interpreter(version, path, io.validate_ok)
             IN  IF invalid # "" THEN failed(invalid)
                 ELSE IF ~io.dependencies_ok THEN failed("CalledProcessError")
                 ELSE [exc |-> "", constructed |-> TRUE, version |-> version,
                       path |-> found.path,
                       is_free_threaded |-> _check_free_threading(path, io.check_ok)]

\* str.strip on a token sequence: whitespace tokens dropped at both ends
RECURSIVE LStrip(_)
LStrip(s) == IF s # <<>> /\ Head(s) = " " THEN LStrip(Tail(s)) ELSE s
RECURSIVE RStrip(_)
RStrip(s) ==
    IF s # <<>> /\ Last(s) = " " THEN RStrip(SubSeq(s, 1, Len(s) - 1)) ELSE s
Strip(s) == LStrip(RStrip(s))

\* a plausible slip: the return code of the child not looked at
RunBenchmarkIgnoringReturnCode(child) ==
    IF child.launch # "" \/ child.read # ""
    THEN [success |-> FALSE,
          error |-> IF child.launch # "" THEN <<child.launch>> ELSE <<child.read>>,
          duration |-> 0, output |-> <<>>]
    ELSE [success |-> TRUE, duration |-> child.duration, output |-> child.output]

\* run_benchmark: child tells how launching, waiting for and reading the child
\* process went; any exception becomes a failure result
run_benchmark(child) ==
    IF child.launch # ""
    THEN [success |-> FALSE, error |-> <<child.launch>>, duration |-> 0,
          output |-> <<>>]
    ELSE IF child.read # ""
    THEN [success |-> FALSE, error |-> <<child.read>>, duration |-> 0,
          output |-> <<>>]
    ELSE IF child.returncode # 0
    THEN [success |-> FALSE,
          error |-> IF Strip(child.stderr) # <<>> THEN Strip(child.stderr)
                    ELSE <<"Process failed">>,
          duration |-> child.duration,
          output |-> child.output]
    ELSE [success |-> TRUE, duration |-> child.duration, output |-> child.output]

\* json.dumps / json.loads: a printed document is the text <<"json", document>>
JsonDumps(doc) == <<"json", doc>>
JsonLoads(text) ==
    IF Len(text) = 2 /\ text[1] = "json"
    THEN [exc |-> "", value |-> text[2]]
    ELSE [exc |-> "JSONDecodeError"]

\* what a child process can do
ChildOutputs == {<<>>, <<"Traceback">>} \cup {JsonDumps(o) : o \in SampleOutputs}
ChildRuns ==
    [launch : {"", "OSError"},
     read : {"", "UnicodeDecodeError"},
     returncode : {0, 1},
     stderr : {<<>>, <<" ">>, <<" ", "Traceback", " ">>},
     duration : SampleDurations,
     output : ChildOutputs]

\* the lists `pyenv versions --bare` can print: the installed versions, sorted
InstalledLists ==
    {o \in VersionOrders :
        \A i, j \in DOMAIN o : i < j =>
            \E a, b \in DOMAIN PYTHON_VERSIONS :
                a < b /\ o[i] = PYTHON_VERSIONS[a] /\ o[j] = PYTHON_VERSIONS[b]}

ConstructorIO ==
    [pyenv_ok : BOOLEAN, validate_ok : BOOLEAN, check_ok : BOOLEAN,
     dependencies_ok : BOOLEAN]

(***************************************************************************)
(* _run_scaling_test                                                       *)
(***************************************************************************)
\* a plausible slip: the document stored before its baseline duration is read
ScalingIterationStoringFirst(acc, child) ==
    LET result == run_benchmark(child)
    IN  IF ~result.success THEN acc
        ELSE LET parsed == JsonLoads(result.output)
             IN  IF parsed.exc # "" THEN acc
                 ELSE LET data == parsed.value
                      IN  IF "metadata" \notin DOMAIN data THEN acc
                          ELSE IF "error" \in DOMAIN data.metadata THEN acc
                          ELSE IF "baseline" \notin DOMAIN data
                                  \/ "duration" \notin DOMAIN data.baseline
                               THEN [acc EXCEPT !.scaling_data = Append(@, data)]
                          ELSE [env_results |->
                                    Append(acc.env_results, data.baseline.duration),
                                scaling_data |-> Append(acc.scaling_data, data)]

\* the body of "for i in range(self.iterations)": a failed child, output that is
\* no JSON, a missing key or an error reported in the metadata keeps nothing
ScalingIteration(acc, child) ==
    LET result == run_benchmark(child)
    IN  IF ~result.success THEN acc
        ELSE LET parsed == JsonLoads(result.output)
             IN  IF parsed.exc # "" THEN acc
                 ELSE LET data == parsed.value
                      IN  IF "metadata" \notin DOMAIN data THEN acc
                          ELSE IF "error" \in DOMAIN data.metadata THEN acc
                          ELSE IF "baseline" \notin DOMAIN data
                                  \/ "duration" \notin DOMAIN data.baseline
                               THEN acc
                          ELSE [env_results |->
                                    Append(acc.env_results, data.baseline.duration),
                                scaling_data |-> Append(acc.scaling_data, data)]

RECURSIVE ScalingIterations(_, _)
ScalingIterations(acc, children) ==
    IF children = <<>> THEN acc
    ELSE ScalingIterations(ScalingIteration(acc, Head(children)), Tail(children))

\* the body of "for env in self.environments": a version none of whose
\* iterations succeeded gets no entry
RECURSIVE ScalingEnvironments(_, _, _)
ScalingEnvironments(version_results_, environments, children) ==
    IF environments = <<>> THEN version_results_
    ELSE LET kept == ScalingIterations([env_results |-> <<>>, scaling_data |-> <<>>],
                                       Head(children))
             next == IF kept.env_results # <<>>
                     THEN DictSet(version_results_, Head(environments),
                                  [durations |-> kept.env_results,
                                   scaling_data |-> kept.scaling_data])
                     ELSE version_results_
         IN  ScalingEnvironments(next, Tail(environments), Tail(children))

\* children[e][i] is what the child process of environment e, iteration i did
_run_scaling_test(environments, children, baseline_version) ==
    _process_scaling_results(ScalingEnvironments(<<>>, environments, children),
                             baseline_version)

(***************************************************************************)
(* Test discovery, the --tests filter and run_all                          *)
(***************************************************************************)
LockContentionFile == <<"test_", "lock_", "contention", "_scaling", ".py">>
MemoryBandwidthFile == <<"test_", "memory_bandwidth", "_scaling", ".py">>
GilContentionFile == <<"gil/", "test_", "contention", ".py">>
ScalingFiles == {LockContentionFile, MemoryBandwidthFile}
RegularFiles == {GilContentionFile}

\* the directory listings glob can return: some of the files, in any order
Listings(files) ==
    {o \in SeqsOf(files, 0, Cardinality(files)) :
        \A i, j \in DOMAIN o : i # j => o[i] # o[j]}

discover_tests(files) == [regular |-> files.regular, scaling |-> files.scaling]

\* str(test_path).replace('.py', '')
TestName(test_path) == SelectSeq(test_path, LAMBDA c : c # ".py")

\* names a user gives to --tests
TestNames == {<<"contention">>, <<"memory_bandwidth">>, <<"test_", "lock_">>}
TestsArgs == SeqsOf(TestNames, 0, MaxTestsArgs)

\* runner.test_filter as __main__ sets it: None unless --tests names something
MainTestFilter(tests) ==
    [i \in DOMAIN tests |->
        IF ~StartsWith(tests[i], <<"test_">>) THEN <<"test_">> \o tests[i]
        ELSE tests[i]]

\* any(f in test_path for f in self.test_filter)
MatchesFilter(filter, test_path) ==
    \E i \in DOMAIN filter : Contains(filter[i], test_path)

FilterActive(has_filter, filter) == has_filter /\ filter # <<>>

\* total_tests of the progress bar
TotalTests(has_filter, filter, discovered) ==
    IF has_filter
    THEN IF filter # <<>>
         THEN Len(SelectSeq(discovered.scaling, LAMBDA t : MatchesFilter(filter, t)))
         ELSE Len(discovered.scaling)
    ELSE Len(discovered.regular) + Len(discovered.scaling)

get_versions_info ==
    [versions |-> PYTHON_VERSIONS, baseline |-> BASELINE_VERSION]

\* what the child processes of one scaling test can do: exit with an error,
\* print something that is no JSON, or print a workload's document
RunnerChildRuns ==
    { [launch |-> "", read |-> "", returncode |-> 1, stderr |-> <<"Traceback">>,
       duration |-> 1, output |-> <<>>],
      [launch |-> "", read |-> "", returncode |-> 0, stderr |-> <<>>,
       duration |-> 1, output |-> <<"Traceback">>],
      [launch |-> "", read |-> "", returncode |-> 0, stderr |-> <<>>,
       duration |-> 2, output |-> JsonDumps(LinearOutput)] }
RunnerChildren ==
    [DOMAIN PYTHON_VERSIONS -> [1..RunnerIterations -> RunnerChildRuns]]

PerfValues == {<<n, 2>> : n \in 0..MaxPerfNum}

StatusIdle == relative_perf = <<0, 2>> /\ is_scaling = FALSE /\ status = None
NotProcessed == [exc |-> "", returned |-> <<>>]
ProcessIdle ==
    /\ test_type = "regular"
    /\ version_results = <<>>
    /\ called = ""
    /\ processed = NotProcessed

EnvIdle ==
    /\ pyenv_versions = <<>>
    /\ constructor_io = None
    /\ env = NoEnvironment
    /\ child_run = None
    /\ bench_result = None

NoResults == [regular |-> <<>>, scaling |-> <<>>]
RunIdle ==
    /\ test_files = NoResults
    /\ args_tests = <<>>
    /\ has_test_filter = FALSE
    /\ test_filter = None
    /\ pc = "idle"
    /\ discovered_tests = NoResults
    /\ total_tests = 0
    /\ position = 0
    /\ results = NoResults
    /\ suite = None

ScalingIdle ==
    /\ iterations = 0
    /\ scaling_pc = "idle"
    /\ env_position = 0
    /\ iteration = 0
    /\ iteration_log = <<>>
    /\ env_results = <<>>
    /\ scaling_data_ = <<>>
    /\ run_results = <<>>
    /\ scaling_returned = NotProcessed

PoolIdle ==
    /\ num_workers = 0
    /\ input_items = <<>>
    /\ input_queue = <<>>
    /\ unfinished_tasks = 0
    /\ output_queue = <<>>
    /\ worker_pc = <<>>
    /\ work_item = <<>>
    /\ main_pc = "idle"
    /\ main_i = 0
    /\ collected = <<>>
    /\ pool_returned = None

LockIdle ==
    /\ shared_lock = FALSE
    /\ shared_counter = 0
    /\ hc_pc = <<>>
    /\ hc_pass = <<>>
    /\ local_count = <<>>
    /\ hc_read = <<>>
    /\ hc_results = <<>>
    /\ total_count = 0
    /\ hc_main = "idle"

BarrierIdle ==
    /\ data0 = 0
    /\ produced = 0
    /\ done = FALSE
    /\ success = FALSE
    /\ producer_pc = "idle"
    /\ consumer_pc = "idle"
    /\ last_seen = 0
    /\ reads = 0
    /\ deadline_passed = FALSE
    /\ barrier_main = "idle"
    /\ barrier_exit = None

CrossIdle ==
    /\ shared_queue = 0
    /\ xt_produced = <<>>
    /\ xt_consumed = <<>>
    /\ xt_producer = <<>>
    /\ xt_consumer = <<>>
    /\ producer_done = FALSE
    /\ consumer_done = FALSE
    /\ stop_signal = FALSE
    /\ xt_main = "idle"

IndexIdle ==
    /\ index_exists = FALSE
    /\ index_rows = <<>>
    /\ extracted = None
    /\ index_calls = <<>>

ThreadIdle ==
    /\ environ = <<>>
    /\ cpu_count = 0
    /\ args_threads = <<>>
    /\ thread_pc = "idle"
    /\ num_threads = 0
    /\ thread_limit = 0
    /\ total_threads = None
    /\ environ_before = <<>>
    /\ available_cores = <<>>
    /\ workload_threads = <<>>

WorkloadIdle ==
    /\ workload = ""
    /\ workload_document = <<>>
    /\ workload_result = NotProcessed
    /\ workload_pc = "idle"

ReportIdle ==
    /\ report_file = None
    /\ page = None

GilIdle ==
    /\ gil_phase = "idle"
    /\ gil_locks = {}
    /\ gil_results = <<>>
    /\ gil_pc = <<>>
    /\ gil_count = <<>>
    /\ gil_read = <<>>

KindIdle ==
    /\ pool_kind = "idle"

ArrayIdle ==
    /\ array_workload = <<>>
    /\ array_pc = "idle"
    /\ array_i = 0
    /\ array_end = 0
    /\ array_results = <<>>
    /\ array_error = <<>>

ChurnIdle ==
    /\ churn_workload = ""
    /\ churn_pc = "idle"
    /\ churn_baseline = <<>>
    /\ churn_k = 0
    /\ churn_finished = 0
    /\ churn_performed = 0
    /\ churn_tests = <<>>

PagerankIdle ==
    /\ pr_input = <<>>
    /\ pr_main = "idle"
    /\ pr_iter = 0
    /\ pr_scores = <<>>
    /\ pr_new_scores = <<>>
    /\ pr_lock = 0
    /\ pr_pc = <<>>
    /\ pr_local = <<>>

LaterIdle ==
    /\ ScalingIdle
    /\ PoolIdle
    /\ LockIdle
    /\ BarrierIdle
    /\ CrossIdle
    /\ IndexIdle
    /\ ThreadIdle
    /\ WorkloadIdle
    /\ ReportIdle
    /\ GilIdle
    /\ KindIdle
    /\ ArrayIdle
    /\ ChurnIdle
    /\ PagerankIdle

InitStatus ==
    /\ LaterIdle
    /\ relative_perf \in PerfValues
    /\ is_scaling \in BOOLEAN
    /\ status = None
    /\ ProcessIdle
    /\ EnvIdle
    /\ RunIdle

DetermineStatus ==
    /\ status = None
    /\ status' = <<_determine_performance_status(relative_perf, is_scaling)>>
    /\ UNCHANGED <<relative_perf, is_scaling, processVars, envVars, runVars, laterVars>>

NextStatus == DetermineStatus

SpecStatus == InitStatus /\ [][NextStatus]_vars

(***************************************************************************)
(* The processing functions applied to any mapping of versions to series.  *)
(***************************************************************************)
InitProcess ==
    /\ LaterIdle
    /\ StatusIdle
    /\ EnvIdle
    /\ RunIdle
    /\ \/ test_type = "regular" /\ version_results \in Mappings(RegularData)
       \/ test_type = "scaling" /\ version_results \in Mappings(ScalingData)
    /\ called = ""
    /\ processed = NotProcessed

ProcessScalingResults ==
    /\ called = ""
    /\ test_type = "scaling"
    /\ called' = "_process_scaling_results"
    /\ processed' = _process_scaling_results(version_results, BASELINE_VERSION)
    /\ UNCHANGED <<test_type, version_results, statusVars, envVars, runVars, laterVars>>

ProcessBenchmarkResults ==
    /\ called = ""
    /\ called' = "_process_benchmark_results"
    /\ processed' = _process_benchmark_results(version_results, test_type,
                                               BASELINE_VERSION)
    /\ UNCHANGED <<test_type, version_results, statusVars, envVars, runVars, laterVars>>

NextProcess == ProcessScalingResults \/ ProcessBenchmarkResults

SpecProcess == InitProcess /\ [][NextProcess]_vars

(***************************************************************************)
(* A PythonEnvironment is constructed, then runs benchmarks.               *)
(***************************************************************************)
InitEnv ==
    /\ LaterIdle
    /\ StatusIdle
    /\ ProcessIdle
    /\ RunIdle
    /\ pyenv_versions \in InstalledLists
    /\ constructor_io = None
    /\ env = NoEnvironment
    /\ child_run = None
    /\ bench_result = None

Construct ==
    /\ ~env.constructed /\ env.exc = ""
    /\ \E version \in Versions, io \in ConstructorIO,
          path_arg \in {None} \cup {<<pyenv_versions[i]>> : i \in DOMAIN pyenv_versions} :
            /\ constructor_io' = <<io>>
            /\ env' = PythonEnvironment(pyenv_versions, version, path_arg, io)
    /\ UNCHANGED <<pyenv_versions, child_run, bench_result, statusVars, processVars, runVars, laterVars>>

RunBenchmark ==
    /\ env.constructed
    /\ \E child \in ChildRuns :
          /\ child_run' = <<child>>
          /\ bench_result' = <<run_benchmark(child)>>
    /\ UNCHANGED <<pyenv_versions, constructor_io, env, statusVars, processVars, runVars, laterVars>>

NextEnv == Construct \/ RunBenchmark

SpecEnv == InitEnv /\ [][NextEnv]_vars

(***************************************************************************)
(* The runner: __main__ sets the test filter, run_all runs the tests.      *)
(***************************************************************************)
Init ==
    /\ LaterIdle
    /\ StatusIdle
    /\ ProcessIdle
    /\ EnvIdle
    /\ test_files \in [regular : Listings(RegularFiles), scaling : Listings(ScalingFiles)]
    /\ args_tests = <<>>
    /\ has_test_filter = FALSE
    /\ test_filter = None
    /\ pc = "constructed"
    /\ discovered_tests = NoResults
    /\ total_tests = 0
    /\ position = 0
    /\ results = NoResults
    /\ suite = None

\* __main__: "if args.tests: runner.test_filter = [...] else: ... = None"
MainSetFilter ==
    /\ pc = "constructed"
    /\ \E tests \in TestsArgs :
          /\ args_tests' = tests
          /\ test_filter' = IF tests # <<>> THEN MainTestFilter(tests) ELSE None
    /\ has_test_filter' = TRUE
    /\ pc' = "main"
    /\ UNCHANGED <<test_files, discovered_tests, total_tests, position, results, suite,
                   statusVars, processVars, envVars, laterVars>>

\* run_all up to its loop; it is also callable on a runner that has no
\* test_filter attribute
RunAllBegin ==
    /\ pc \in {"constructed", "main"}
    /\ discovered_tests' = discover_tests(test_files)
    /\ results' = NoResults
    /\ total_tests' = TotalTests(has_test_filter, test_filter, discover_tests(test_files))
    /\ position' = 1
    /\ pc' = "run_all"
    /\ UNCHANGED <<test_files, args_tests, has_test_filter, test_filter, suite,
                   statusVars, processVars, envVars, laterVars>>

\* one pass of "for test_path in discovered_tests['scaling']"; an exception of
\* the processing ends run_all
RunAllTest ==
    /\ pc = "run_all"
    /\ position <= Len(discovered_tests.scaling)
    /\ LET test_path == discovered_tests.scaling[position]
       IN  IF FilterActive(has_test_filter, test_filter)
              /\ ~MatchesFilter(test_filter, test_path)
           THEN /\ position' = position + 1
                /\ UNCHANGED <<results, pc>>
           ELSE \E children \in RunnerChildren :
                   LET run == _run_scaling_test(PYTHON_VERSIONS, children,
                                                BASELINE_VERSION)
                   IN  IF run.exc # ""
                       THEN /\ pc' = "raised"
                            /\ UNCHANGED <<results, position>>
                       ELSE /\ results' =
                                  [results EXCEPT !.scaling =
                                      DictSet(@, TestName(test_path), run.returned)]
                            /\ position' = position + 1
                            /\ pc' = pc
    /\ UNCHANGED <<test_files, args_tests, has_test_filter, test_filter,
                   discovered_tests, total_tests, suite,
                   statusVars, processVars, envVars, laterVars>>

\* "return BenchmarkSuite(...)"
RunAllReturn ==
    /\ pc = "run_all"
    /\ position > Len(discovered_tests.scaling)
    /\ suite' = <<[regular_tests |-> results.regular,
                   scaling_tests |-> results.scaling,
                   versions_info |-> get_versions_info]>>
    /\ pc' = "done"
    /\ UNCHANGED <<test_files, args_tests, has_test_filter, test_filter,
                   discovered_tests, total_tests, position, results,
                   statusVars, processVars, envVars, laterVars>>

Next == MainSetFilter \/ RunAllBegin \/ RunAllTest \/ RunAllReturn

Spec == Init /\ [][Next]_vars

(***************************************************************************)
(* Properties.                                                             *)
(***************************************************************************)
Returned == processed.returned
NonBaseline(d) == {i \in DOMAIN d : d[i].key # BASELINE_VERSION}
ComparisonStatuses == {"improved", "similar", "degraded"}
DocumentedStatuses == {"baseline"} \cup ComparisonStatuses

\* C1: _determine_performance_status returns exactly one of improved, similar,
\* degraded by the 10% threshold: regular tests are improved below 90, degraded
\* above 110 and similar from 90 to 110; scaling tests are improved above 110,
\* degraded below 90 and similar from 90 to 110.
C1_StatusByThreshold ==
    status # None =>
        LET below == relative_perf[1] < 90 * relative_perf[2]
            above == relative_perf[1] > 110 * relative_perf[2]
        IN  /\ status[1] \in ComparisonStatuses
            /\ ~is_scaling =>
                /\ status[1] = "improved" <=> below
                /\ status[1] = "degraded" <=> above
                /\ status[1] = "similar" <=> (~below /\ ~above)
            /\ is_scaling =>
                /\ status[1] = "improved" <=> above
                /\ status[1] = "degraded" <=> below
                /\ status[1] = "similar" <=> (~below /\ ~above)

\* a scaling test half a percent above the upper threshold has been classified
C1_Witness ==
    /\ status = <<"improved">>
    /\ is_scaling
    /\ relative_perf = <<221, 2>>

\* C2: after _process_scaling_results a non-baseline version carries a
\* relative_performance only if the baseline has a result made from a non-empty
\* series; with the baseline absent from the input every relative_performance is
\* None.
C2_ScalingRelativeNeedsBaseline ==
    called = "_process_scaling_results" =>
        /\ \A i \in NonBaseline(Returned) :
              Returned[i].value.relative_performance # None =>
                  /\ DictHas(Returned, BASELINE_VERSION)
                  /\ DictHas(version_results, BASELINE_VERSION)
                  /\ DictGet(version_results, BASELINE_VERSION).durations # <<>>
        /\ ~DictHas(version_results, BASELINE_VERSION) =>
              \A i \in DOMAIN Returned : Returned[i].value.relative_performance = None

\* without a baseline in the input a non-baseline version got its result, with
\* no relative figure
C2_Witness ==
    /\ called = "_process_scaling_results"
    /\ ~DictHas(version_results, BASELINE_VERSION)
    /\ \E i \in DOMAIN Returned : Returned[i].value.relative_performance = None

\* C3 (as claimed): after _process_benchmark_results a non-baseline version has a
\* relative_performance only when the baseline's statistics are present.
C3_RegularRelativeNeedsBaseline ==
    (called = "_process_benchmark_results" /\ test_type = "regular") =>
        \A i \in NonBaseline(Returned) :
            Returned[i].value.relative_performance # None =>
                DictHas(Returned, BASELINE_VERSION)

\* C4 (as claimed): every result the two processing functions return has one of
\* the statuses baseline, improved, degraded, similar.
C4_StatusDocumented ==
    (called # "" /\ processed.exc = "") =>
        \A i \in DOMAIN Returned : Returned[i].value.status \in DocumentedStatuses

\* the versions of a dict whose series is not empty, in the dict's order
RECURSIVE NonEmptyKeys(_, _)
NonEmptyKeys(d, type) ==
    IF d = <<>> THEN <<>>
    ELSE LET durations == IF type = "regular" THEN Head(d).value
                          ELSE Head(d).value.durations
         IN  (IF durations = <<>> THEN <<>> ELSE <<Head(d).key>>)
                 \o NonEmptyKeys(Tail(d), type)

ByRunnerCallPath ==
    \/ called = "_process_scaling_results"
    \/ called = "_process_benchmark_results" /\ test_type = "regular"

\* C5: a version with an empty series is skipped: processing raises nothing (no
\* statistic is taken of an empty series), the version has no entry, and the
\* entries are exactly the versions with a non-empty series.
C5_EmptySeriesSkipped ==
    ByRunnerCallPath =>
        /\ processed.exc = ""
        /\ DictKeys(Returned) = NonEmptyKeys(version_results, test_type)

\* a version with an empty series was skipped and another version got its entry
C5_Witness ==
    /\ ByRunnerCallPath
    /\ Len(Returned) > 0
    /\ Len(Returned) < Len(version_results)

C9_FreeThreadedIffTrailingT ==
    (env.constructed /\ constructor_io[1].check_ok) =>
        (env.is_free_threaded <=> EndsWith(env.version, <<"t">>))

\* C9 (amended): a PythonEnvironment constructed with a version ending in "t" runs
\* an interpreter that reports the GIL disabled, and is_free_threaded is true only
\* of such an interpreter.
C9_TrailingTImpliesGilDisabled ==
    env.constructed =>
        /\ EndsWith(env.version, <<"t">>) =>
              Interpreter(env.path[1]).gil_disabled = "1"
        /\ env.is_free_threaded => Interpreter(env.path[1]).gil_disabled = "1"

\* an environment for 3.13.0t was constructed and found free-threaded
C9_Witness ==
    /\ env.constructed
    /\ env.version = V3130t
    /\ env.is_free_threaded

\* C10: run_benchmark returns a result whatever happens: success exactly when
\* nothing raised and the child exited with code 0, and otherwise a failure that
\* carries an error entry.
C10_RunBenchmarkNeverRaises ==
    bench_result # None =>
        LET result == bench_result[1]
            child == child_run[1]
        IN  /\ result.success <=>
                  (child.launch = "" /\ child.read = "" /\ child.returncode = 0)
            /\ ~result.success => "error" \in DOMAIN result
            /\ result.success => "error" \notin DOMAIN result

\* a child that exited with a non-zero code and an empty stderr was reported failed
C10_Witness ==
    /\ bench_result # None
    /\ child_run[1].launch = "" /\ child_run[1].read = ""
    /\ child_run[1].returncode = 1
    /\ ~bench_result[1].success
    /\ bench_result[1].error = <<"Process failed">>

\* the result keys run_all would have for the given test files
TestNamesOf(paths) == [i \in DOMAIN paths |-> TestName(paths[i])]

\* C7 (as claimed): with no test filter run_all runs every discovered benchmark,
\* regular and scaling, and the suite it returns has one entry for each.
C7_RunsEveryDiscoveredTest ==
    (pc = "done" /\ ~FilterActive(has_test_filter, test_filter)) =>
        /\ DictKeys(suite[1].scaling_tests) = TestNamesOf(test_files.scaling)
        /\ DictKeys(suite[1].regular_tests) = TestNamesOf(test_files.regular)

\* a scaling test file is selected when its name contains a name given to --tests
SelectedByName(test_path) ==
    \E i \in DOMAIN args_tests : Contains(args_tests[i], test_path)

\* C8 (as claimed): run_all runs exactly the scaling tests whose file name contains
\* one of the names given to --tests, and skips the others.
C8_TestsArgumentSelectsByName ==
    (pc = "done" /\ args_tests # <<>>) =>
        DictKeys(suite[1].scaling_tests) =
            TestNamesOf(SelectSeq(test_files.scaling, SelectedByName))

(***************************************************************************)
(* _run_scaling_test, one iteration of one environment at a time.          *)
(***************************************************************************)
\* a workload whose two threads took a third of the single-threaded time
SuperlinearOutput ==
    [metadata |-> [test_name |-> "scaling"],
     baseline |-> [duration |-> 3],
     scaling_tests |->
        << [threads |-> 1, duration |-> 3, speedup |-> 1],
           [threads |-> 2, duration |-> 1, speedup |-> 3] >>]
\* what a workload prints when it fails: an error in the metadata, an empty
\* baseline
ErrorOutput ==
    [metadata |-> [test_name |-> "scaling", error |-> "Test failed"],
     baseline |-> <<>>,
     scaling_tests |-> <<>>]
\* a document without the "baseline" key
NoBaselineOutput ==
    [metadata |-> [test_name |-> "scaling"],
     scaling_tests |-> <<>>]
\* the JSON array "[]" (an array is the record of its elements): subscripting
\* it with 'metadata' raises TypeError
ArrayOutput == [array |-> <<>>]

ExitedZero(text) ==
    [launch |-> "", read |-> "", returncode |-> 0, stderr |-> <<>>,
     duration |-> 1, output |-> text]

\* what a child process of _run_scaling_test can do: the three outcomes of
\* RunnerChildRuns, or print a document of one of the shapes above
ScalingChildRuns ==
    RunnerChildRuns \cup
        {ExitedZero(JsonDumps(o)) :
            o \in {SuperlinearOutput, ErrorOutput, NoBaselineOutput, ArrayOutput}}

\* "if env_results: results[env.version] = {...}"
StoreEnvironment(results_, version, durations, documents) ==
    IF durations # <<>>
    THEN DictSet(results_, version,
                 [durations |-> durations, scaling_data |-> documents])
    ELSE results_

InitScaling ==
    /\ StatusIdle
    /\ ProcessIdle
    /\ EnvIdle
    /\ RunIdle
    /\ PagerankIdle
    /\ ChurnIdle
    /\ ArrayIdle
    /\ KindIdle
    /\ GilIdle
    /\ ReportIdle
    /\ WorkloadIdle
    /\ PoolIdle
    /\ LockIdle
    /\ BarrierIdle
    /\ CrossIdle
    /\ IndexIdle
    /\ ThreadIdle
    /\ iterations \in 1..MaxIter
    /\ scaling_pc = "start"
    /\ env_position = 0
    /\ iteration = 0
    /\ iteration_log = <<>>
    /\ env_results = <<>>
    /\ scaling_data_ = <<>>
    /\ run_results = <<>>
    /\ scaling_returned = NotProcessed

\* "for env in self.environments: env_results = []; scaling_data = []"
BeginEnvironment ==
    /\ scaling_pc \in {"start", "stored"}
    /\ env_position < Len(PYTHON_VERSIONS)
    /\ env_position' = env_position + 1
    /\ iteration' = 0
    /\ iteration_log' = <<>>
    /\ env_results' = <<>>
    /\ scaling_data_' = <<>>
    /\ scaling_pc' = "iterating"
    /\ UNCHANGED <<iterations, run_results, scaling_returned, scalingFrame>>

\* one pass of "for i in range(self.iterations)"
RunIteration ==
    /\ scaling_pc = "iterating"
    /\ iteration < iterations
    /\ \E child \in ScalingChildRuns :
          LET kept == ScalingIteration([env_results |-> env_results,
                                        scaling_data |-> scaling_data_], child)
          IN  /\ env_results' = kept.env_results
              /\ scaling_data_' = kept.scaling_data
              /\ iteration_log' = Append(iteration_log, child)
    /\ iteration' = iteration + 1
    /\ UNCHANGED <<iterations, scaling_pc, env_position, run_results,
                   scaling_returned, scalingFrame>>

\* the end of the inner loop: "if env_results: results[env.version] = ..."
EndEnvironment ==
    /\ scaling_pc = "iterating"
    /\ iteration = iterations
    /\ run_results' = StoreEnvironment(run_results, PYTHON_VERSIONS[env_position],
                                       env_results, scaling_data_)
    /\ scaling_pc' = "stored"
    /\ UNCHANGED <<iterations, env_position, iteration, iteration_log, env_results,
                   scaling_data_, scaling_returned, scalingFrame>>

\* "return self._process_scaling_results(results)"
ReturnScaling ==
    /\ scaling_pc = "stored"
    /\ env_position = Len(PYTHON_VERSIONS)
    /\ scaling_returned' = _process_scaling_results(run_results, BASELINE_VERSION)
    /\ scaling_pc' = "returned"
    /\ UNCHANGED <<iterations, env_position, iteration, iteration_log, env_results,
                   scaling_data_, run_results, scalingFrame>>

NextScaling == BeginEnvironment \/ RunIteration \/ EndEnvironment \/ ReturnScaling

SpecScaling == InitScaling /\ [][NextScaling]_vars

ScalingReturned == scaling_returned.returned

\* C11 (as claimed): every ScalingBenchmarkResult that _process_scaling_results
\* produces has an efficiency from 0 to 1 inclusive.
C11_EfficiencyWithinUnitInterval ==
    scaling_pc = "returned" =>
        \A i \in DOMAIN ScalingReturned :
            LET efficiency == ScalingReturned[i].value.efficiency
            IN  /\ ~RatLT(efficiency, Int2Rat(0))
                /\ ~RatGT(efficiency, Int2Rat(1))

\* an iteration that _run_scaling_test keeps: the child exited with code 0 and
\* printed a JSON object with no error in its metadata and a baseline duration
IsKept(child) ==
    /\ child.launch = "" /\ child.read = "" /\ child.returncode = 0
    /\ Len(child.output) = 2 /\ child.output[1] = "json"
    /\ child.output[2] \in SampleOutputs \cup {SuperlinearOutput}

DocumentsOf(log) ==
    LET kept == SelectSeq(log, IsKept)
    IN  [i \in DOMAIN kept |-> kept[i].output[2]]
BaselineDurationsOf(log) ==
    LET documents == DocumentsOf(log)
    IN  [i \in DOMAIN documents |-> documents[i].baseline.duration]

\* C18: in _run_scaling_test a failed iteration adds no duration and stops
\* nothing: every iteration of every environment runs, and the durations kept for
\* a version are the baseline durations of its successful iterations, in run
\* order, each paired with the document it came from.
C18_FailedIterationsContributeNothing ==
    /\ Len(iteration_log) = iteration
    /\ env_results = BaselineDurationsOf(iteration_log)
    /\ scaling_data_ = DocumentsOf(iteration_log)
    /\ scaling_pc = "stored" =>
          LET version == PYTHON_VERSIONS[env_position]
          IN  /\ iteration = iterations
              /\ DictHas(run_results, version) <=> env_results # <<>>
              /\ DictHas(run_results, version) =>
                    /\ DictGet(run_results, version).durations =
                           BaselineDurationsOf(iteration_log)
                    /\ DictGet(run_results, version).scaling_data =
                           DocumentsOf(iteration_log)
    /\ scaling_pc = "returned" => env_position = Len(PYTHON_VERSIONS)
    /\ \A v \in DOMAIN run_results :
          Len(run_results[v].value.durations) = Len(run_results[v].value.scaling_data)

\* after a failed first iteration the second one succeeded, and the last
\* environment still ran
C18_Witness ==
    /\ scaling_pc = "stored"
    /\ env_position = Len(PYTHON_VERSIONS)
    /\ Len(iteration_log) = 2
    /\ ~IsKept(iteration_log[1])
    /\ IsKept(iteration_log[2])
    /\ Len(DictGet(run_results, PYTHON_VERSIONS[env_position]).durations) = 1

\* C19: _process_scaling_results takes scaling_factor and max_threads from the
\* last entry of scaling_tests of the last successful iteration, efficiency is
\* their quotient, and base_duration is the mean of the baseline durations of all
\* successful iterations.
C19_ScalingFactorFromLastRun ==
    scaling_pc = "returned" =>
        /\ scaling_returned.exc = ""
        /\ \A i \in DOMAIN ScalingReturned :
              LET result == ScalingReturned[i].value
                  data == DictGet(run_results, ScalingReturned[i].key)
                  final == Last(Last(data.scaling_data).scaling_tests)
              IN  /\ result.scaling_factor = final.speedup
                  /\ result.max_threads = final.threads
                  /\ result.efficiency[1] * final.threads =
                         final.speedup * result.efficiency[2]
                  /\ result.base_duration[1] * Len(data.durations) =
                         SumSeq(data.durations) * result.base_duration[2]

\* a version whose first successful iteration scaled superlinearly and whose
\* last one scaled linearly got the linear figures
C19_Witness ==
    /\ scaling_pc = "returned"
    /\ \E i \in DOMAIN ScalingReturned :
          LET data == DictGet(run_results, ScalingReturned[i].key)
          IN  /\ data.scaling_data = <<SuperlinearOutput, LinearOutput>>
              /\ ScalingReturned[i].value.scaling_factor = 2
              /\ ScalingReturned[i].value.base_duration = <<5, 2>>

(***************************************************************************)
(* ParallelMap (workload/fib/test_parallel_map.py).  A queue.Queue is the  *)
(* sequence of its items; put appends and counts an unfinished task, get   *)
(* waits for an item and takes the first, task_done counts one task        *)
(* finished, join waits until no task is unfinished.  A WorkItem is        *)
(* <<index, item>>, the stop signal None.                                  *)
(***************************************************************************)
RECURSIVE FibLoop(_, _, _)
FibLoop(a, b, k) == IF k = 0 THEN b ELSE FibLoop(b, a + b, k - 1)
fibonacci(n) == IF n <= 1 THEN n ELSE FibLoop(0, 1, n - 1)

\* sorted() on a list of (index, result) tuples: by index, then by result
PairLE(p, q) == p[1] < q[1] \/ (p[1] = q[1] /\ p[2] <= q[2])
RECURSIVE InsertPair(_, _)
InsertPair(x, s) ==
    IF s = <<>> THEN <<x>>
    ELSE IF PairLE(x, Head(s)) THEN <<x>> \o s
    ELSE <<Head(s)>> \o InsertPair(x, Tail(s))
RECURSIVE SortedPairs(_)
SortedPairs(s) == IF s = <<>> THEN <<>> ELSE InsertPair(Head(s), SortedPairs(Tail(s)))

\* a plausible slip: the results returned in the order of their arrival
MapResultsUnsorted(results_in) == [i \in DOMAIN results_in |-> results_in[i][2]]

\* [r[1] for r in sorted(results)]
MapResults(results_in) ==
    LET ordered == SortedPairs(results_in)
    IN  [i \in DOMAIN ordered |-> ordered[i][2]]

\* the arguments of the fibonacci calls
SampleNumbers == {2, 7}
Workers == 1..num_workers

InitPool ==
    /\ StatusIdle
    /\ ProcessIdle
    /\ EnvIdle
    /\ RunIdle
    /\ PagerankIdle
    /\ ChurnIdle
    /\ ArrayIdle
    /\ KindIdle
    /\ GilIdle
    /\ ReportIdle
    /\ WorkloadIdle
    /\ ScalingIdle
    /\ LockIdle
    /\ BarrierIdle
    /\ CrossIdle
    /\ IndexIdle
    /\ ThreadIdle
    /\ num_workers \in 1..MaxWorkers
    /\ input_items \in SeqsOf(SampleNumbers, 0, MaxItems)
    /\ input_queue = <<>>
    /\ unfinished_tasks = 0
    /\ output_queue = <<>>
    /\ worker_pc = [w \in 1..num_workers |-> "unstarted"]
    /\ work_item = [w \in 1..num_workers |-> None]
    /\ main_pc = "start"
    /\ main_i = 0
    /\ collected = <<>>
    /\ pool_returned = None

OneStopSignal(workers) == 1

\* "for _ in range(self.num_workers): self.input_queue.put(None)": how many
\* stop signals the caller sends
StopSignals(workers) == workers

\* the calling thread's position after one more pass of a loop of `total`
\* passes: the next loop once the last pass is made
AfterPass(total, here, there) ==
    IF main_i + 1 >= total
    THEN /\ main_pc' = there
         /\ main_i' = 0
    ELSE /\ main_pc' = here
         /\ main_i' = main_i + 1

\* map: "for _ in range(self.num_workers): ... t.start()"
MapStartWorker ==
    /\ main_pc = "start"
    /\ worker_pc' = [worker_pc EXCEPT ![main_i + 1] = "get"]
    /\ AfterPass(num_workers, "start", IF input_items = <<>> THEN "stop" ELSE "feed")
    /\ UNCHANGED <<num_workers, input_items, input_queue, unfinished_tasks, output_queue,
                   work_item, collected, pool_returned, poolFrame>>

\* map: "self.input_queue.put(WorkItem(i, item))"
MapFeed ==
    /\ main_pc = "feed"
    /\ input_queue' = Append(input_queue, <<main_i, input_items[main_i + 1]>>)
    /\ unfinished_tasks' = unfinished_tasks + 1
    /\ AfterPass(Len(input_items), "feed", "stop")
    /\ UNCHANGED <<num_workers, input_items, output_queue, worker_pc, work_item,
                   collected, pool_returned, poolFrame>>

\* map: "self.input_queue.put(None)"
MapSendStop ==
    /\ main_pc = "stop"
    /\ input_queue' = Append(input_queue, None)
    /\ unfinished_tasks' = unfinished_tasks + 1
    /\ AfterPass(StopSignals(num_workers), "stop", "join")
    /\ UNCHANGED <<num_workers, input_items, output_queue, worker_pc, work_item,
                   collected, pool_returned, poolFrame>>

\* map: "self.input_queue.join()"
MapJoin ==
    /\ main_pc = "join"
    /\ unfinished_tasks = 0
    /\ main_pc' = "collect"
    /\ UNCHANGED <<num_workers, input_items, input_queue, unfinished_tasks, output_queue,
                   worker_pc, work_item, main_i, collected, pool_returned, poolFrame>>

\* map: "while not self.output_queue.empty(): results.append(...get())"
MapCollect ==
    /\ main_pc = "collect"
    /\ output_queue # <<>>
    /\ collected' = Append(collected, Head(output_queue))
    /\ output_queue' = Tail(output_queue)
    /\ UNCHANGED <<num_workers, input_items, input_queue, unfinished_tasks, worker_pc,
                   work_item, main_pc, main_i, pool_returned, poolFrame>>

\* map: "return [r[1] for r in sorted(results)]"
MapReturn ==
    /\ main_pc = "collect"
    /\ output_queue = <<>>
    /\ pool_returned' = <<MapResults(collected)>>
    /\ main_pc' = "returned"
    /\ UNCHANGED <<num_workers, input_items, input_queue, unfinished_tasks, output_queue,
                   worker_pc, work_item, main_i, collected, poolFrame>>

\* worker: "work_item = self.input_queue.get()"
MapWorkerGet ==
    \E w \in Workers :
        /\ worker_pc[w] = "get"
        /\ input_queue # <<>>
        /\ work_item' = [work_item EXCEPT ![w] = Head(input_queue)]
        /\ input_queue' = Tail(input_queue)
        /\ worker_pc' = [worker_pc EXCEPT
                            ![w] = IF Head(input_queue) = None THEN "stopping"
                                   ELSE "put"]
        /\ UNCHANGED <<num_workers, input_items, unfinished_tasks, output_queue, main_pc,
                       main_i, collected, pool_returned, poolFrame>>

\* worker: "result = func(work_item.item); self.output_queue.put((index, result))"
MapWorkerPut ==
    \E w \in Workers :
        /\ worker_pc[w] = "put"
        /\ output_queue' = Append(output_queue,
                                  <<work_item[w][1], fibonacci(work_item[w][2])>>)
        /\ worker_pc' = [worker_pc EXCEPT ![w] = "task_done"]
        /\ UNCHANGED <<num_workers, input_items, input_queue, unfinished_tasks, work_item,
                       main_pc, main_i, collected, pool_returned, poolFrame>>

\* worker: "self.input_queue.task_done()", after an item and after the stop
\* signal ("break")
MapWorkerTaskDone ==
    \E w \in Workers :
        /\ worker_pc[w] \in {"task_done", "stopping"}
        /\ unfinished_tasks' = unfinished_tasks - 1
        /\ worker_pc' = [worker_pc EXCEPT
                            ![w] = IF worker_pc[w] = "stopping" THEN "exited"
                                   ELSE "get"]
        /\ UNCHANGED <<num_workers, input_items, input_queue, output_queue, work_item,
                       main_pc, main_i, collected, pool_returned, poolFrame>>

NextParallelMap ==
    \/ MapStartWorker \/ MapFeed \/ MapSendStop \/ MapJoin \/ MapCollect
    \/ MapReturn \/ MapWorkerGet \/ MapWorkerPut \/ MapWorkerTaskDone

SpecParallelMap == InitPool /\ [][NextParallelMap]_vars

\* C12: ParallelMap.map(func, items) returns [func(x) for x in items], in input
\* order and with one result per item, whatever the interleaving of the worker
\* threads and whatever num_workers >= 1.
C12_MapReturnsResultsInInputOrder ==
    main_pc = "returned" =>
        pool_returned = <<[i \in DOMAIN input_items |-> fibonacci(input_items[i])]>>

\* two workers finished the two items in the opposite order, and map returned
\* the results in input order
C12_Witness ==
    /\ main_pc = "returned"
    /\ num_workers = 2
    /\ input_items = <<7, 2>>
    /\ collected = << <<1, 1>>, <<0, 13>> >>
    /\ pool_returned = << <<13, 1>> >>

(***************************************************************************)
(* Pipeline (workload/fib/test_parallel_pipeline.py): start(), then one    *)
(* call of process(numbers).  The input queue is bounded: put waits while  *)
(* the queue is full.  A queued number n is <<n>>, the stop signal None.   *)
(***************************************************************************)
\* a plausible slip: results collected without waiting for the workers
JoinLeftOut == TRUE

\* what "self.input_queue.join()" waits for
InputQueueJoined == unfinished_tasks = 0

InputQueueFull == Len(input_queue) >= InputQueueMaxSize

\* start: "for _ in range(self.num_workers): ... t.start()"
PipelineStart ==
    /\ main_pc = "start"
    /\ worker_pc' = [worker_pc EXCEPT ![main_i + 1] = "get"]
    /\ AfterPass(num_workers, "start",
                 IF input_items = <<>> THEN "stop" ELSE "feed")
    /\ UNCHANGED <<num_workers, input_items, input_queue, unfinished_tasks,
                   output_queue, work_item, collected, pool_returned, poolFrame>>

\* process: "for n in numbers: self.input_queue.put(n)"
PipelineFeed ==
    /\ main_pc = "feed"
    /\ ~InputQueueFull
    /\ input_queue' = Append(input_queue, <<input_items[main_i + 1]>>)
    /\ unfinished_tasks' = unfinished_tasks + 1
    /\ AfterPass(Len(input_items), "feed", "stop")
    /\ UNCHANGED <<num_workers, input_items, output_queue, worker_pc, work_item,
                   collected, pool_returned, poolFrame>>

\* process: "self.input_queue.put(None)"
PipelineSendStop ==
    /\ main_pc = "stop"
    /\ ~InputQueueFull
    /\ input_queue' = Append(input_queue, None)
    /\ unfinished_tasks' = unfinished_tasks + 1
    /\ AfterPass(StopSignals(num_workers), "stop", "join")
    /\ UNCHANGED <<num_workers, input_items, output_queue, worker_pc, work_item,
                   collected, pool_returned, poolFrame>>

\* process: "self.input_queue.join()"
PipelineJoin ==
    /\ main_pc = "join"
    /\ InputQueueJoined
    /\ main_pc' = "collect"
    /\ UNCHANGED <<num_workers, input_items, input_queue, unfinished_tasks,
                   output_queue, worker_pc, work_item, main_i, collected,
                   pool_returned, poolFrame>>

\* process: "while not self.output_queue.empty(): results.append(...get())"
PipelineCollect ==
    /\ main_pc = "collect"
    /\ output_queue # <<>>
    /\ collected' = Append(collected, Head(output_queue))
    /\ output_queue' = Tail(output_queue)
    /\ UNCHANGED <<num_workers, input_items, input_queue, unfinished_tasks,
                   worker_pc, work_item, main_pc, main_i, pool_returned, poolFrame>>

\* process: "return results"
PipelineReturn ==
    /\ main_pc = "collect"
    /\ output_queue = <<>>
    /\ pool_returned' = <<collected>>
    /\ main_pc' = "returned"
    /\ UNCHANGED <<num_workers, input_items, input_queue, unfinished_tasks,
                   output_queue, worker_pc, work_item, main_i, collected, poolFrame>>

\* worker: "n = self.input_queue.get()"
PipelineWorkerGet ==
    \E w \in Workers :
        /\ worker_pc[w] = "get"
        /\ input_queue # <<>>
        /\ work_item' = [work_item EXCEPT ![w] = Head(input_queue)]
        /\ input_queue' = Tail(input_queue)
        /\ worker_pc' = [worker_pc EXCEPT
                            ![w] = IF Head(input_queue) = None THEN "stopping"
                                   ELSE "put"]
        /\ UNCHANGED <<num_workers, input_items, unfinished_tasks, output_queue,
                       main_pc, main_i, collected, pool_returned, poolFrame>>

\* worker: "result = fibonacci(n); self.output_queue.put((n, result))"
PipelineWorkerPut ==
    \E w \in Workers :
        /\ worker_pc[w] = "put"
        /\ output_queue' = Append(output_queue,
                                  <<work_item[w][1], fibonacci(work_item[w][1])>>)
        /\ worker_pc' = [worker_pc EXCEPT ![w] = "task_done"]
        /\ UNCHANGED <<num_workers, input_items, input_queue, unfinished_tasks,
                       work_item, main_pc, main_i, collected, pool_returned,
                       poolFrame>>

\* worker: "self.input_queue.task_done()", after a number and after the stop
\* signal ("break")
PipelineWorkerTaskDone ==
    \E w \in Workers :
        /\ worker_pc[w] \in {"task_done", "stopping"}
        /\ unfinished_tasks' = unfinished_tasks - 1
        /\ worker_pc' = [worker_pc EXCEPT
                            ![w] = IF worker_pc[w] = "stopping" THEN "exited"
                                   ELSE "get"]
        /\ UNCHANGED <<num_workers, input_items, input_queue, output_queue,
                       work_item, main_pc, main_i, collected, pool_returned,
                       poolFrame>>

NextPipeline ==
    \/ PipelineStart \/ PipelineFeed \/ PipelineSendStop \/ PipelineJoin
    \/ PipelineCollect \/ PipelineReturn \/ PipelineWorkerGet
    \/ PipelineWorkerPut \/ PipelineWorkerTaskDone

SpecPipeline == InitPool /\ [][NextPipeline]_vars

\* either workload, where some thread that can take a step eventually takes one
InitPools ==
    /\ StatusIdle
    /\ ProcessIdle
    /\ EnvIdle
    /\ RunIdle
    /\ PagerankIdle
    /\ ChurnIdle
    /\ ArrayIdle
    /\ GilIdle
    /\ ReportIdle
    /\ WorkloadIdle
    /\ ScalingIdle
    /\ LockIdle
    /\ BarrierIdle
    /\ CrossIdle
    /\ IndexIdle
    /\ ThreadIdle
    /\ pool_kind \in {"map", "pipeline"}
    /\ num_workers \in 1..MaxWorkers
    /\ input_items \in SeqsOf(SampleNumbers, 0, MaxItems)
    /\ input_queue = <<>>
    /\ unfinished_tasks = 0
    /\ output_queue = <<>>
    /\ worker_pc = [w \in 1..num_workers |-> "unstarted"]
    /\ work_item = [w \in 1..num_workers |-> None]
    /\ main_pc = "start"
    /\ main_i = 0
    /\ collected = <<>>
    /\ pool_returned = None

MapStep == pool_kind = "map" /\ NextParallelMap

PipelineStep == pool_kind = "pipeline" /\ NextPipeline

NextPools == MapStep \/ PipelineStep

SpecPools == InitPools /\ [][NextPools]_vars /\ WF_vars(NextPools)

\* the caller has returned, every worker has exited, and nothing is left in
\* the input queue
PoolTerminated ==
    /\ main_pc = "returned"
    /\ \A w \in Workers : worker_pc[w] = "exited"
    /\ input_queue = <<>>
    /\ unfinished_tasks = 0

\* the stop signals a worker has taken from the input queue
StopSignalsTaken == Cardinality({w \in Workers : worker_pc[w] \in {"stopping", "exited"}})

\* C28: under fair scheduling Pipeline.process and ParallelMap.map terminate:
\* the caller returns from input_queue.join() and from the call, every worker
\* has taken one stop signal and exited, and none waits on the input queue; and
\* at all times no item is behind a stop signal in the input queue, so that all
\* items are dequeued before any stop signal.
C28_PoolsTerminate ==
    /\ <>PoolTerminated
    /\ [](\A i, j \in DOMAIN input_queue :
              (i < j /\ input_queue[i] = None) => input_queue[j] = None)
    /\ [](PoolTerminated => StopSignalsTaken = num_workers)

\* C28: a Pipeline of two workers has processed two numbers and ended
C28_Witness ==
    /\ PoolTerminated
    /\ pool_kind = "pipeline"
    /\ num_workers = 2
    /\ Len(input_items) = 2
    /\ Len(pool_returned[1]) = 2

\* how often x occurs in the list s
Occurrences(s, x) == Cardinality({i \in DOMAIN s : s[i] = x})

\* C13: after start(), process(numbers) returns one (n, fibonacci(n)) pair for
\* each input number: as many pairs as numbers, each number's pair as often as the
\* number occurs in the input, and no other pair, whatever the interleaving.
C13_ProcessReturnsOnePairPerNumber ==
    main_pc = "returned" =>
        LET returned == pool_returned[1]
        IN  /\ Len(returned) = Len(input_items)
            /\ \A i \in DOMAIN returned :
                  returned[i][2] = fibonacci(returned[i][1])
            /\ \A n \in SampleNumbers :
                  Occurrences(returned, <<n, fibonacci(n)>>) =
                      Occurrences(input_items, n)

\* two workers finished the two numbers in the opposite order, and process
\* returned both pairs
C13_Witness ==
    /\ main_pc = "returned"
    /\ num_workers = 2
    /\ input_items = <<7, 2>>
    /\ pool_returned = << << <<2, 1>>, <<7, 13>> >> >>

(***************************************************************************)
(* The high-contention test of core/synchronization/test_lock_patterns.py. *)
(* "shared_counter += 1" is a read of the variable followed by a write.    *)
(***************************************************************************)
HcThreads == 1..LockThreads

\* a plausible slip: the increment made without taking the lock
LockNotTaken == TRUE

\* "with shared_lock:" enters when the lock is free
LockAvailable == ~shared_lock

InitLock ==
    /\ StatusIdle
    /\ ProcessIdle
    /\ EnvIdle
    /\ RunIdle
    /\ PagerankIdle
    /\ ChurnIdle
    /\ ArrayIdle
    /\ KindIdle
    /\ GilIdle
    /\ ReportIdle
    /\ WorkloadIdle
    /\ ScalingIdle
    /\ PoolIdle
    /\ BarrierIdle
    /\ CrossIdle
    /\ IndexIdle
    /\ ThreadIdle
    /\ shared_lock = FALSE
    /\ shared_counter = 0
    /\ hc_pc = [t \in HcThreads |-> "unstarted"]
    /\ hc_pass = [t \in HcThreads |-> 0]
    /\ local_count = [t \in HcThreads |-> 0]
    /\ hc_read = [t \in HcThreads |-> 0]
    /\ hc_results = <<>>
    /\ total_count = 0
    /\ hc_main = "launch"

\* main: "for t in threads: t.start()"
HcLaunch ==
    /\ hc_main = "launch"
    /\ hc_pc' = [t \in HcThreads |-> "acquire"]
    /\ hc_main' = "join"
    /\ UNCHANGED <<shared_lock, shared_counter, hc_pass, local_count, hc_read,
                   hc_results, total_count, lockFrame>>

\* worker: "with shared_lock:" (enter)
HcAcquire ==
    \E t \in HcThreads :
        /\ hc_pc[t] = "acquire"
        /\ LockAvailable
        /\ shared_lock' = TRUE
        /\ hc_pc' = [hc_pc EXCEPT ![t] = "read"]
        /\ UNCHANGED <<shared_counter, hc_pass, local_count, hc_read, hc_results,
                       total_count, hc_main, lockFrame>>

\* worker: "shared_counter += 1" (the read)
HcRead ==
    \E t \in HcThreads :
        /\ hc_pc[t] = "read"
        /\ hc_read' = [hc_read EXCEPT ![t] = shared_counter]
        /\ hc_pc' = [hc_pc EXCEPT ![t] = "write"]
        /\ UNCHANGED <<shared_lock, shared_counter, hc_pass, local_count,
                       hc_results, total_count, hc_main, lockFrame>>

\* worker: "shared_counter += 1" (the write) and "local_count += 1"
HcWrite ==
    \E t \in HcThreads :
        /\ hc_pc[t] = "write"
        /\ shared_counter' = hc_read[t] + 1
        /\ local_count' = [local_count EXCEPT ![t] = @ + 1]
        /\ hc_pc' = [hc_pc EXCEPT ![t] = "release"]
        /\ UNCHANGED <<shared_lock, hc_pass, hc_read, hc_results, total_count,
                       hc_main, lockFrame>>

\* worker: "with shared_lock:" (exit) and the next pass of "for _ in
\* range(iterations)"
HcRelease ==
    \E t \in HcThreads :
        /\ hc_pc[t] = "release"
        /\ shared_lock' = FALSE
        /\ hc_pass' = [hc_pass EXCEPT ![t] = @ + 1]
        /\ hc_pc' = [hc_pc EXCEPT
                        ![t] = IF hc_pass[t] + 1 < LockIterations THEN "acquire"
                               ELSE "put"]
        /\ UNCHANGED <<shared_counter, local_count, hc_read, hc_results,
                       total_count, hc_main, lockFrame>>

\* worker: "results.put(local_count)"
HcPut ==
    \E t \in HcThreads :
        /\ hc_pc[t] = "put"
        /\ hc_results' = Append(hc_results, local_count[t])
        /\ hc_pc' = [hc_pc EXCEPT ![t] = "finished"]
        /\ UNCHANGED <<shared_lock, shared_counter, hc_pass, local_count, hc_read,
                       total_count, hc_main, lockFrame>>

\* main: "for t in threads: t.join()"
HcJoin ==
    /\ hc_main = "join"
    /\ \A t \in HcThreads : hc_pc[t] = "finished"
    /\ hc_main' = "joined"
    /\ UNCHANGED <<shared_lock, shared_counter, hc_pc, hc_pass, local_count,
                   hc_read, hc_results, total_count, lockFrame>>

\* main: the sum of the results and "if total_count != iterations * num_threads:
\* return 1"
HcVerify ==
    /\ hc_main = "joined"
    /\ total_count' = SumSeq(hc_results)
    /\ hc_results' = <<>>
    /\ hc_main' = IF SumSeq(hc_results) # LockIterations * LockThreads
                  THEN "returned 1" ELSE "verified"
    /\ UNCHANGED <<shared_lock, shared_counter, hc_pc, hc_pass, local_count,
                   hc_read, lockFrame>>

NextLock ==
    \/ HcLaunch \/ HcAcquire \/ HcRead \/ HcWrite \/ HcRelease \/ HcPut
    \/ HcJoin \/ HcVerify

SpecLock == InitLock /\ [][NextLock]_vars

\* C14: no increment made under shared_lock is lost: once the workers are joined,
\* shared_counter and the sum of the local counts both equal iterations x
\* num_threads, and main's verification of total_count passes.
C14_NoLostIncrement ==
    /\ hc_main \in {"joined", "verified", "returned 1"} =>
          /\ shared_counter = LockIterations * LockThreads
          /\ SumSeq(local_count) = LockIterations * LockThreads
    /\ hc_main # "returned 1"
    /\ hc_main = "verified" => total_count = LockIterations * LockThreads

\* the workers were joined and the verification passed
C14_Witness ==
    /\ hc_main = "verified"
    /\ shared_counter = LockIterations * LockThreads
    /\ total_count = LockIterations * LockThreads
    /\ \A t \in HcThreads : local_count[t] = LockIterations

(***************************************************************************)
(* core/memory_ordering/test_memory_barrier.py: a producer writes the      *)
(* values of a counter to data[0] until done is set; a consumer counts the *)
(* new values it reads until it has `iterations` of them or its deadline   *)
(* has passed.                                                             *)
(***************************************************************************)
InitBarrier ==
    /\ StatusIdle
    /\ ProcessIdle
    /\ EnvIdle
    /\ RunIdle
    /\ PagerankIdle
    /\ ChurnIdle
    /\ ArrayIdle
    /\ KindIdle
    /\ GilIdle
    /\ ReportIdle
    /\ WorkloadIdle
    /\ ScalingIdle
    /\ PoolIdle
    /\ LockIdle
    /\ CrossIdle
    /\ IndexIdle
    /\ ThreadIdle
    /\ data0 = 0
    /\ produced = 0
    /\ done = FALSE
    /\ success = FALSE
    /\ producer_pc = "unstarted"
    /\ consumer_pc = "unstarted"
    /\ last_seen = 0
    /\ reads = 0
    /\ deadline_passed = FALSE
    /\ barrier_main = "start"
    /\ barrier_exit = None

\* main: "t1.start(); t2.start()"
BarrierStart ==
    /\ barrier_main = "start"
    /\ producer_pc' = "check"
    /\ consumer_pc' = "check"
    /\ barrier_main' = "join"
    /\ UNCHANGED <<data0, produced, done, success, last_seen, reads,
                   deadline_passed, barrier_exit, barrierFrame>>

\* time.time() comes to exceed the consumer's deadline
DeadlinePasses ==
    /\ barrier_main = "join"
    /\ ~deadline_passed
    /\ deadline_passed' = TRUE
    /\ UNCHANGED <<data0, produced, done, success, producer_pc, consumer_pc,
                   last_seen, reads, barrier_main, barrier_exit, barrierFrame>>

\* producer: "while not done.is_set()"
ProducerCheck ==
    /\ producer_pc = "check"
    /\ producer_pc' = IF done THEN "finished" ELSE "write"
    /\ UNCHANGED <<data0, produced, done, success, consumer_pc, last_seen, reads,
                   deadline_passed, barrier_main, barrier_exit, barrierFrame>>

\* producer: "val = next(counter); data[0] = val"
ProducerWrite ==
    /\ producer_pc = "write"
    /\ produced < MaxProduced
    /\ produced' = produced + 1
    /\ data0' = produced + 1
    /\ producer_pc' = "check"
    /\ UNCHANGED <<done, success, consumer_pc, last_seen, reads, deadline_passed,
                   barrier_main, barrier_exit, barrierFrame>>

\* consumer: "while reads < iterations: if time.time() > deadline: break"
ConsumerCheck ==
    /\ consumer_pc = "check"
    /\ consumer_pc' = IF reads < BarrierIterations /\ ~deadline_passed THEN "read"
                      ELSE "after loop"
    /\ UNCHANGED <<data0, produced, done, success, producer_pc, last_seen, reads,
                   deadline_passed, barrier_main, barrier_exit, barrierFrame>>

\* consumer: "current = data[0]; if current != last_seen and current > 0: ..."
ConsumerRead ==
    /\ consumer_pc = "read"
    /\ IF data0 # last_seen /\ data0 > 0
       THEN /\ last_seen' = data0
            /\ reads' = reads + 1
       ELSE UNCHANGED <<last_seen, reads>>
    /\ consumer_pc' = "check"
    /\ UNCHANGED <<data0, produced, done, success, producer_pc, deadline_passed,
                   barrier_main, barrier_exit, barrierFrame>>

\* consumer, after the loop however it ended: "success.set()"
ConsumerSetSuccess ==
    /\ consumer_pc = "after loop"
    /\ success' = TRUE
    /\ consumer_pc' = "set done"
    /\ UNCHANGED <<data0, produced, done, producer_pc, last_seen, reads,
                   deadline_passed, barrier_main, barrier_exit, barrierFrame>>

\* consumer: "done.set()"
ConsumerSetDone ==
    /\ consumer_pc = "set done"
    /\ done' = TRUE
    /\ consumer_pc' = "finished"
    /\ UNCHANGED <<data0, produced, success, producer_pc, last_seen, reads,
                   deadline_passed, barrier_main, barrier_exit, barrierFrame>>

\* main: "t1.join(TIMEOUT); t2.join(TIMEOUT)" return when the threads have
\* finished or the time is up, then "if not success.is_set(): return 1"
BarrierReturn ==
    /\ barrier_main = "join"
    /\ \/ producer_pc = "finished" /\ consumer_pc = "finished"
       \/ deadline_passed
    /\ barrier_exit' = IF success THEN <<0>> ELSE <<1>>
    /\ barrier_main' = "returned"
    /\ UNCHANGED <<data0, produced, done, success, producer_pc, consumer_pc,
                   last_seen, reads, deadline_passed, barrierFrame>>

NextBarrier ==
    \/ BarrierStart \/ DeadlinePasses \/ ProducerCheck \/ ProducerWrite
    \/ ConsumerCheck \/ ConsumerRead \/ ConsumerSetSuccess \/ ConsumerSetDone
    \/ BarrierReturn

SpecBarrier == InitBarrier /\ [][NextBarrier]_vars

\* C15 (as claimed): success is set only when the consumer has seen `iterations`
\* new values, and a run in which the consumer met its deadline first makes main
\* return 1.
C15_SuccessOnlyAfterAllReads ==
    /\ success => reads = BarrierIterations
    /\ (barrier_main = "returned" /\ consumer_pc = "finished"
            /\ reads < BarrierIterations) => barrier_exit = <<1>>

(***************************************************************************)
(* memory/ref_counting/test_cross_thread.py.  The module imports the class *)
(* queue.Queue under the name Queue; the exceptions a timed-out put or get *)
(* raises are queue.Full and queue.Empty, and the class has no attribute   *)
(* Full or Empty: matching the exception against "except Queue.Full:" or   *)
(* "except Queue.Empty:" raises AttributeError, which ends the thread.     *)
(***************************************************************************)
Pairs == 1..CrossPairs

InitCross ==
    /\ StatusIdle
    /\ ProcessIdle
    /\ EnvIdle
    /\ RunIdle
    /\ PagerankIdle
    /\ ChurnIdle
    /\ ArrayIdle
    /\ KindIdle
    /\ GilIdle
    /\ ReportIdle
    /\ WorkloadIdle
    /\ ScalingIdle
    /\ PoolIdle
    /\ LockIdle
    /\ BarrierIdle
    /\ IndexIdle
    /\ ThreadIdle
    /\ shared_queue = 0
    /\ xt_produced = [p \in Pairs |-> 0]
    /\ xt_consumed = [p \in Pairs |-> 0]
    /\ xt_producer = [p \in Pairs |-> "unstarted"]
    /\ xt_consumer = [p \in Pairs |-> "unstarted"]
    /\ producer_done = FALSE
    /\ consumer_done = FALSE
    /\ stop_signal = FALSE
    /\ xt_main = "start"

\* main: "producer_thread.start(); consumer_thread.start()" for every pair
CrossStart ==
    /\ xt_main = "start"
    /\ xt_producer' = [p \in Pairs |-> "running"]
    /\ xt_consumer' = [p \in Pairs |-> "running"]
    /\ xt_main' = "monitor"
    /\ UNCHANGED <<shared_queue, xt_produced, xt_consumed, producer_done,
                   consumer_done, stop_signal, crossFrame>>

\* producer: a pass of the loop in which put finds room in the queue
ProducerPut ==
    \E p \in Pairs :
        /\ xt_producer[p] = "running"
        /\ xt_produced[p] < CrossIterations /\ ~stop_signal
        /\ shared_queue < CrossQueueSize
        /\ shared_queue' = shared_queue + 1
        /\ xt_produced' = [xt_produced EXCEPT ![p] = @ + 1]
        /\ UNCHANGED <<xt_consumed, xt_producer, xt_consumer, producer_done,
                       consumer_done, stop_signal, xt_main, crossFrame>>

\* producer: put finds the queue full for a second and raises queue.Full;
\* "except Queue.Full:" raises AttributeError, "finally: producer_done.set()"
\* runs and the thread ends
ProducerPutTimesOut ==
    \E p \in Pairs :
        /\ xt_producer[p] = "running"
        /\ xt_produced[p] < CrossIterations /\ ~stop_signal
        /\ shared_queue >= CrossQueueSize
        /\ xt_producer' = [xt_producer EXCEPT ![p] = "raised"]
        /\ producer_done' = TRUE
        /\ UNCHANGED <<shared_queue, xt_produced, xt_consumed, xt_consumer,
                       consumer_done, stop_signal, xt_main, crossFrame>>

\* producer: the loop condition fails; "finally: producer_done.set()"
ProducerLeaves ==
    \E p \in Pairs :
        /\ xt_producer[p] = "running"
        /\ ~(xt_produced[p] < CrossIterations /\ ~stop_signal)
        /\ xt_producer' = [xt_producer EXCEPT ![p] = "finished"]
        /\ producer_done' = TRUE
        /\ UNCHANGED <<shared_queue, xt_produced, xt_consumed, xt_consumer,
                       consumer_done, stop_signal, xt_main, crossFrame>>

\* consumer: a pass of the loop in which get finds an object
ConsumerGet ==
    \E c \in Pairs :
        /\ xt_consumer[c] = "running"
        /\ xt_consumed[c] < CrossIterations
        /\ shared_queue > 0
        /\ shared_queue' = shared_queue - 1
        /\ xt_consumed' = [xt_consumed EXCEPT ![c] = @ + 1]
        /\ UNCHANGED <<xt_produced, xt_producer, xt_consumer, producer_done,
                       consumer_done, stop_signal, xt_main, crossFrame>>

\* consumer: get finds the queue empty for a second and raises queue.Empty;
\* "except Queue.Empty:" raises AttributeError and the thread ends
ConsumerGetTimesOut ==
    \E c \in Pairs :
        /\ xt_consumer[c] = "running"
        /\ xt_consumed[c] < CrossIterations
        /\ shared_queue = 0
        /\ xt_consumer' = [xt_consumer EXCEPT ![c] = "raised"]
        /\ UNCHANGED <<shared_queue, xt_produced, xt_consumed, xt_producer,
                       producer_done, consumer_done, stop_signal, xt_main,
                       crossFrame>>

\* consumer: the loop condition fails; "consumer_done.set()"
ConsumerLeaves ==
    \E c \in Pairs :
        /\ xt_consumer[c] = "running"
        /\ xt_consumed[c] >= CrossIterations
        /\ xt_consumer' = [xt_consumer EXCEPT ![c] = "finished"]
        /\ consumer_done' = TRUE
        /\ UNCHANGED <<shared_queue, xt_produced, xt_consumed, xt_producer,
                       producer_done, stop_signal, xt_main, crossFrame>>

\* main: "if producer_done.is_set() and consumer_done.is_set(): break"
CrossMonitorBreaks ==
    /\ xt_main = "monitor"
    /\ producer_done /\ consumer_done
    /\ xt_main' = "join"
    /\ UNCHANGED <<shared_queue, xt_produced, xt_consumed, xt_producer,
                   xt_consumer, producer_done, consumer_done, stop_signal,
                   crossFrame>>

\* main: the monitoring loop runs out of time; "stop_signal.set()"
CrossMonitorTimesOut ==
    /\ xt_main = "monitor"
    /\ stop_signal' = TRUE
    /\ xt_main' = "join"
    /\ UNCHANGED <<shared_queue, xt_produced, xt_consumed, xt_producer,
                   xt_consumer, producer_done, consumer_done, crossFrame>>

\* main: "t.join(timeout=1.0)" for every thread, then "return 0"
CrossReturn ==
    /\ xt_main = "join"
    /\ xt_main' = "returned"
    /\ UNCHANGED <<shared_queue, xt_produced, xt_consumed, xt_producer,
                   xt_consumer, producer_done, consumer_done, stop_signal,
                   crossFrame>>

NextCross ==
    \/ CrossStart \/ ProducerPut \/ ProducerPutTimesOut \/ ProducerLeaves
    \/ ConsumerGet \/ ConsumerGetTimesOut \/ ConsumerLeaves
    \/ CrossMonitorBreaks \/ CrossMonitorTimesOut \/ CrossReturn

SpecCross == InitCross /\ [][NextCross]_vars

Ended(state) == state \in {"finished", "raised"}

\* C16 (as claimed): a timed-out queue operation is retried: a producer stops only
\* when it has produced `iterations` objects or stop_signal is set, and a consumer
\* stops only when it has consumed `iterations` objects, stop_signal is set, or
\* the producers are done.
C16_TimedOutOperationsAreRetried ==
    /\ \A p \in DOMAIN xt_producer :
          Ended(xt_producer[p]) =>
              xt_produced[p] = CrossIterations \/ stop_signal
    /\ \A c \in DOMAIN xt_consumer :
          Ended(xt_consumer[c]) =>
              xt_consumed[c] = CrossIterations \/ stop_signal \/ producer_done

(***************************************************************************)
(* scripts/update_index.py.  A run id is <<date digits, "_", time digits>> *)
(* (the format %Y%m%d_%H%M%S); the table of the index file is the sequence *)
(* of its rows after the header row, each row its four cells.              *)
(***************************************************************************)
\* run ids given with --run-id, and the one made of datetime.now()
SampleRunIds == { <<"20240101", "_", "120000">>, <<"20240102", "_", "093000">> }
NowRunId == <<"20240103", "_", "000000">>
DigitTokens ==
    {"20240101", "20240102", "20240103", "120000", "093000", "000000"}

\* what the JSON file has under git_info: nothing, or a branch and a commit
SampleGitInfo == { <<>>, <<"Branch: main", "Commit: abc">> }

\* re.search(r'runs/(\d+)/results.html', href): the digits between the first
\* "runs/" and a "/results.html" that follows them directly, None when nothing
\* matches
RegexSearch(href) ==
    LET hits == {i \in DOMAIN href :
                    /\ href[i] = "runs/"
                    /\ \E j \in (i + 2)..Len(href) :
                          /\ href[j] = "/results.html"
                          /\ \A k \in (i + 1)..(j - 1) : href[k] \in DigitTokens}
    IN  IF hits = {} THEN None
        ELSE LET i == CHOOSE h \in hits : \A g \in hits : h <= g
                 j == CHOOSE e \in (i + 2)..Len(href) :
                          /\ href[e] = "/results.html"
                          /\ \A k \in (i + 1)..(e - 1) : href[k] \in DigitTokens
             IN  <<SubSeq(href, i + 1, j - 1)>>

\* the row update_index_page makes for a run
NewRow(run_id, git_info) ==
    [timestamp |-> <<run_id[1], " ", run_id[3]>>,
     system_info |-> <<"CPU", "Memory", "OS">>,
     git_info |-> IF git_info # <<>> THEN git_info ELSE <<"N/A">>,
     href |-> <<"runs/">> \o run_id \o <<"/results.html">>]

\* the header row the index file is created with
HeaderRow ==
    [timestamp |-> <<"Timestamp">>, system_info |-> <<"System Info">>,
     git_info |-> <<"Git Info">>, href |-> <<"Results">>]

\* table.find('tr'): the position of the first row of the table
FindTr(table) == 1

InsertAtEnd(table, header_row, row) == Append(table, row)

\* row.insert_after(new_row): the new row becomes the next row after header_row
InsertAfter(table, header_row, row) ==
    SubSeq(table, 1, header_row) \o <<row>> \o SubSeq(table, header_row + 1, Len(table))

\* the loop of extract_existing_runs: .group(1) of no match raises
\* AttributeError
RECURSIVE ExtractRows(_, _)
ExtractRows(acc, rows) ==
    IF rows = <<>> \/ acc.exc # "" THEN acc
    ELSE LET match == RegexSearch(Head(rows).href)
         IN  IF match = None THEN [exc |-> "AttributeError", runs |-> <<>>]
             ELSE ExtractRows(
                      [acc EXCEPT !.runs =
                          Append(@, [timestamp |-> Head(rows).timestamp,
                                     system_info |-> Head(rows).system_info,
                                     git_info |-> Head(rows).git_info,
                                     id |-> match[1]])],
                      Tail(rows))

extract_existing_runs(exists, rows) ==
    IF ~exists THEN [exc |-> "", runs |-> <<>>]
    ELSE ExtractRows([exc |-> "", runs |-> <<>>], rows)

InitIndex ==
    /\ StatusIdle
    /\ ProcessIdle
    /\ EnvIdle
    /\ RunIdle
    /\ PagerankIdle
    /\ ChurnIdle
    /\ ArrayIdle
    /\ KindIdle
    /\ GilIdle
    /\ ReportIdle
    /\ WorkloadIdle
    /\ ScalingIdle
    /\ PoolIdle
    /\ LockIdle
    /\ BarrierIdle
    /\ CrossIdle
    /\ ThreadIdle
    /\ index_exists \in BOOLEAN
    /\ index_rows = <<>>
    /\ extracted = None
    /\ index_calls = <<>>

\* update_index_page(json_file, index_file, run_id): the index is created when
\* missing, and the new row is inserted after the header row
UpdateIndexPage ==
    /\ Len(index_rows) < MaxRuns
    /\ \E run_id \in SampleRunIds \cup {NowRunId}, git_info \in SampleGitInfo :
          LET table == <<HeaderRow>> \o index_rows
              new_row == NewRow(run_id, git_info)
          IN  /\ index_rows' = Tail(InsertAfter(table, FindTr(table), new_row))
              /\ index_calls' = Append(index_calls, new_row)
    /\ index_exists' = TRUE
    /\ UNCHANGED <<extracted, indexFrame>>

ExtractExistingRuns ==
    /\ extracted' = <<[rows |-> index_rows,
                       result |-> extract_existing_runs(index_exists, index_rows)]>>
    /\ UNCHANGED <<index_exists, index_rows, index_calls, indexFrame>>

NextIndex == UpdateIndexPage \/ ExtractExistingRuns

SpecIndex == InitIndex /\ [][NextIndex]_vars

\* C17 (as claimed): extract_existing_runs returns one entry for every row that
\* update_index_page has inserted, and each entry's id is the run id of the row's
\* results link.
C17_ExtractReturnsEveryInsertedRun ==
    extracted # None =>
        LET rows == extracted[1].rows
            result == extracted[1].result
        IN  /\ result.exc = ""
            /\ Len(result.runs) = Len(rows)
            /\ \A i \in DOMAIN result.runs :
                  result.runs[i].id = SubSeq(rows[i].href, 2, Len(rows[i].href) - 1)

\* C21: after any sequence of calls of update_index_page the table holds one
\* row per call, the row of the newest call first, each as its call made it;
\* and a call puts its row first and leaves the rows it found as they were.
C21_OneRowPerCallNewestFirst ==
    /\ Len(index_rows) = Len(index_calls)
    /\ \A i \in DOMAIN index_rows :
          index_rows[i] = index_calls[Len(index_calls) + 1 - i]

\* C21: two calls for different runs have been made
C21_Witness ==
    /\ Len(index_calls) = 2
    /\ index_calls[1] # index_calls[2]
    /\ index_rows[1] = index_calls[2]

\* ---------------------------------------------------------------------------
\* The thread configuration of the runner: the --threads argument of __main__,
\* BenchmarkRunner._init_thread_config, _configure_thread_limits and
\* _set_thread_limits.  A string is the sequence of its characters; the words
\* 'auto', 'max', 'all' and a word that is no number are one token each.
\* ---------------------------------------------------------------------------

Digits == <<"0", "1", "2", "3", "4", "5", "6", "7", "8", "9">>

IsDigit(c) == \E v \in DOMAIN Digits : Digits[v] = c

DigitValue(c) == (CHOOSE v \in DOMAIN Digits : Digits[v] = c) - 1

RECURSIVE DigitsValue(_)
DigitsValue(s) ==
    IF s = <<>> THEN 0
    ELSE DigitsValue(SubSeq(s, 1, Len(s) - 1)) * 10 + DigitValue(Last(s))

\* int(text): surrounding blanks are dropped, one leading minus sign is
\* accepted, and anything but decimal digits after it raises ValueError
StrToInt(text) ==
    LET t == Strip(text)
        negative == t # <<>> /\ Head(t) = "-"
        d == IF negative THEN Tail(t) ELSE t
    IN  IF d = <<>> \/ \E i \in DOMAIN d : ~IsDigit(d[i])
        THEN [exc |-> "ValueError", value |-> 0]
        ELSE [exc |-> "",
              value |-> IF negative THEN 0 - DigitsValue(d) ELSE DigitsValue(d)]

RECURSIVE NatToStr(_)
NatToStr(n) ==
    IF n < 10 THEN <<Digits[n + 1]>>
    ELSE NatToStr(n \div 10) \o <<Digits[(n % 10) + 1]>>

\* str(n) of an int
IntToStr(n) == IF n < 0 THEN <<"-">> \o NatToStr(0 - n) ELSE NatToStr(n)

LibraryVars ==
    {"OMP_NUM_THREADS", "MKL_NUM_THREADS", "OPENBLAS_NUM_THREADS",
     "VECLIB_MAXIMUM_THREADS", "NUMEXPR_NUM_THREADS"}

EnvNames == {"BENCHMARK_CPU_CORES", "BENCHMARK_THREAD_LIMIT"} \cup LibraryVars

\* os.environ.get(name, default)
EnvironGet(os_environ, name, default) ==
    IF os_environ[name] = None THEN default ELSE os_environ[name][1]

\* values BENCHMARK_THREAD_LIMIT is started with and --threads is given
SampleLimits ==
    {<<"0">>, <<"1">>, <<"2">>, <<"0", "0">>, <<" ", "2">>, <<"-", "1">>,
     <<"many">>, <<>>}

SampleCores == {<<"all">>, <<"1">>, <<"0">>, <<"many">>}

SampleThreadsArgs ==
    {<<"auto">>, <<"max">>, <<"2">>, <<" ", "1">>, <<"0">>, <<"many">>}

\* the outcome of the --threads handling of __main__: the environment it
\* leaves and whether it called sys.exit(1)
MainThreads(os_environ, threads) ==
    IF threads = <<"auto">> THEN [environ |-> os_environ, exit |-> None]
    ELSE IF threads = <<"max">>
    THEN [environ |-> [os_environ EXCEPT !["BENCHMARK_CPU_CORES"] = <<<<"all">>>>,
                                  !["BENCHMARK_THREAD_LIMIT"] = <<<<"0">>>>],
          exit |-> None]
    ELSE LET thread_count == StrToInt(threads)
         IN  IF thread_count.exc = "ValueError"
             THEN [environ |-> os_environ, exit |-> <<1>>]
             ELSE [environ |->
                       [os_environ EXCEPT !["BENCHMARK_CPU_CORES"] =
                                       <<IntToStr(thread_count.value)>>,
                                   !["BENCHMARK_THREAD_LIMIT"] = <<<<"1">>>>],
                   exit |-> None]

\* num_threads as _init_thread_config leaves it before it configures the limits
InitNumThreads(os_environ, cpus) ==
    LET cpu_cores == EnvironGet(os_environ, "BENCHMARK_CPU_CORES", <<"all">>)
        cores == StrToInt(cpu_cores)
    IN  IF cpu_cores # <<"all">> /\ cores.exc = ""
        THEN (IF cores.value < cpus THEN cores.value ELSE cpus)
        ELSE cpus

ConfigureThreadLimitsWithoutZeroCase(os_environ, threads) ==
    LET limit == StrToInt(EnvironGet(os_environ, "BENCHMARK_THREAD_LIMIT", <<"1">>))
    IN  IF limit.exc = "ValueError"
        THEN [thread_limit |-> 1, total_threads |-> <<threads>>]
        ELSE [thread_limit |-> limit.value,
              total_threads |-> <<threads * limit.value>>]

\* thread_limit and total_threads as _configure_thread_limits sets them
_configure_thread_limits(os_environ, threads) ==
    LET thread_limit_ == EnvironGet(os_environ, "BENCHMARK_THREAD_LIMIT", <<"1">>)
        limit == StrToInt(thread_limit_)
    IN  IF thread_limit_ # <<"0">>
        THEN IF limit.exc = "ValueError"
             THEN [thread_limit |-> 1, total_threads |-> <<threads>>]
             ELSE [thread_limit |-> limit.value,
                   total_threads |-> <<threads * limit.value>>]
        ELSE [thread_limit |-> 0, total_threads |-> None]

\* os.environ after _set_thread_limits
_set_thread_limits(os_environ, total) ==
    IF total # None
    THEN [name \in EnvNames |->
             IF name \in LibraryVars THEN <<IntToStr(total[1])>> ELSE os_environ[name]]
    ELSE os_environ

\* values of CPU_SET, read where the process has no cpu_affinity
SampleCpuSets ==
    {<<>>, <<"1">>, <<"0", "-", "1">>, <<"0", ",", "1">>, <<"many">>}

\* text.split(sep)
RECURSIVE SplitOn(_, _)
SplitOn(text, sep) ==
    IF \A k \in DOMAIN text : text[k] # sep THEN <<text>>
    ELSE LET k == CHOOSE k \in DOMAIN text :
                    text[k] = sep /\ \A h \in 1..(k - 1) : text[h] # sep
         IN  <<SubSeq(text, 1, k - 1)>>
                \o SplitOn(SubSeq(text, k + 1, Len(text)), sep)

\* the cores one part of CPU_SET names: a range 'start-end' or one number
CpuSetPart(part) ==
    IF \E k \in DOMAIN part : part[k] = "-"
    THEN LET ends == SplitOn(part, "-")
         IN  IF Len(ends) # 2 THEN [exc |-> "ValueError", cores |-> {}]
             ELSE IF StrToInt(ends[1]).exc # "" \/ StrToInt(ends[2]).exc # ""
             THEN [exc |-> "ValueError", cores |-> {}]
             ELSE [exc |-> "",
                   cores |-> StrToInt(ends[1]).value..StrToInt(ends[2]).value]
    ELSE IF StrToInt(part).exc # "" THEN [exc |-> "ValueError", cores |-> {}]
    ELSE [exc |-> "", cores |-> {StrToInt(part).value}]

\* benchmarks/utils.py get_available_cores(): the affinity of the process, or
\* without one the cores CPU_SET names, or all cores; then limited by
\* BENCHMARK_CPU_CORES
get_available_cores(os_environ, has_affinity, cpu_set, cpus) ==
    LET parts == SplitOn(cpu_set, ",")
        named == [k \in DOMAIN parts |-> CpuSetPart(parts[k])]
        cpu_cores == EnvironGet(os_environ, "BENCHMARK_CPU_CORES", <<"all">>)
        limit == StrToInt(cpu_cores)
        counted ==
            IF has_affinity \/ cpu_set = <<>> THEN cpus
            ELSE Cardinality(UNION {named[k].cores : k \in DOMAIN named})
    IN  IF ~has_affinity /\ cpu_set # <<>>
            /\ \E k \in DOMAIN named : named[k].exc # ""
        THEN [exc |-> "ValueError", value |-> 0]
        ELSE IF cpu_cores # <<"all">> /\ limit.exc = ""
        THEN [exc |-> "",
              value |-> IF limit.value < counted THEN limit.value ELSE counted]
        ELSE [exc |-> "", value |-> counted]

\* benchmarks/utils.py get_total_threads()
get_total_threads(os_environ, num_cores) ==
    LET limit == StrToInt(EnvironGet(os_environ, "BENCHMARK_THREAD_LIMIT", <<"1">>))
    IN  IF num_cores.exc # "" THEN num_cores
        ELSE IF limit.exc # "" THEN [exc |-> "ValueError", value |-> 0]
        ELSE IF limit.value > 0
        THEN [exc |-> "", value |-> num_cores.value * limit.value]
        ELSE num_cores

InitThreads ==
    /\ StatusIdle
    /\ ProcessIdle
    /\ EnvIdle
    /\ RunIdle
    /\ PagerankIdle
    /\ ChurnIdle
    /\ ArrayIdle
    /\ KindIdle
    /\ GilIdle
    /\ ReportIdle
    /\ WorkloadIdle
    /\ ScalingIdle
    /\ PoolIdle
    /\ LockIdle
    /\ BarrierIdle
    /\ CrossIdle
    /\ IndexIdle
    /\ \E limit \in {None} \cup {<<v>> : v \in SampleLimits},
          cores \in {None} \cup {<<v>> : v \in SampleCores},
          library \in {None, <<<<"8">>>>} :
          environ = [name \in EnvNames |->
                        IF name = "BENCHMARK_THREAD_LIMIT" THEN limit
                        ELSE IF name = "BENCHMARK_CPU_CORES" THEN cores
                        ELSE library]
    /\ cpu_count \in 1..MaxCpus
    /\ args_threads = <<>>
    /\ thread_pc = "main"
    /\ num_threads = 0
    /\ thread_limit = 0
    /\ total_threads = None
    /\ environ_before = <<>>
    /\ available_cores = <<>>
    /\ workload_threads = <<>>

\* __main__ reads --threads and sets the environment, or exits
ParseThreadsArgument ==
    /\ thread_pc = "main"
    /\ \E threads \in SampleThreadsArgs :
          LET out == MainThreads(environ, threads)
          IN  /\ args_threads' = <<threads>>
              /\ environ' = out.environ
              /\ thread_pc' = IF out.exit = None THEN "parsed" ELSE "exited"
    /\ UNCHANGED <<cpu_count, num_threads, thread_limit, total_threads,
                   environ_before, available_cores, workload_threads,
                   threadFrame>>

\* the constructor of the runner runs _init_thread_config
InitThreadConfig ==
    /\ thread_pc = "parsed"
    /\ LET threads == InitNumThreads(environ, cpu_count)
           limits == _configure_thread_limits(environ, threads)
       IN  /\ num_threads' = threads
           /\ thread_limit' = limits.thread_limit
           /\ total_threads' = limits.total_threads
    /\ thread_pc' = "configured"
    /\ UNCHANGED <<environ, cpu_count, args_threads, environ_before,
                   available_cores, workload_threads, threadFrame>>

\* run_all starts with _set_thread_limits
SetThreadLimits ==
    /\ thread_pc = "configured"
    /\ environ_before' = <<environ>>
    /\ environ' = _set_thread_limits(environ, total_threads)
    /\ thread_pc' = "limits set"
    /\ UNCHANGED <<cpu_count, args_threads, num_threads, thread_limit,
                   total_threads, available_cores, workload_threads,
                   threadFrame>>

\* a workload started by the runner, with the runner's environment, asks
\* benchmarks/utils.py for its cores and threads
WorkloadAsksThreads ==
    /\ thread_pc = "limits set"
    /\ \E has_affinity \in BOOLEAN, cpu_set \in SampleCpuSets :
          LET cores == get_available_cores(environ, has_affinity, cpu_set, cpu_count)
          IN  /\ available_cores' = cores
              /\ workload_threads' = get_total_threads(environ, cores)
    /\ thread_pc' = "workload"
    /\ UNCHANGED <<environ, cpu_count, args_threads, num_threads, thread_limit,
                   total_threads, environ_before, threadFrame>>

NextThreads ==
    \/ ParseThreadsArgument
    \/ InitThreadConfig
    \/ SetThreadLimits
    \/ WorkloadAsksThreads

SpecThreads == InitThreads /\ [][NextThreads]_vars

\* the value of BENCHMARK_THREAD_LIMIT the runner was configured from
ConfiguredLimit == EnvironGet(environ, "BENCHMARK_THREAD_LIMIT", <<"1">>)

\* the integers the sample values denote; the other samples denote none
LimitDenotes ==
    {<<<<"0">>, 0>>, <<<<"1">>, 1>>, <<<<"2">>, 2>>, <<<<"0", "0">>, 0>>,
     <<<<" ", "2">>, 2>>, <<<<"-", "1">>, 0 - 1>>}

\* C20: once the runner is configured, BENCHMARK_THREAD_LIMIT '0' (which
\* --threads max sets) leaves total_threads None and _set_thread_limits then
\* leaves the five library variables as they were; any other value that is an
\* integer n gives thread_limit n and total_threads num_threads * n, and
\* _set_thread_limits then sets each of the five variables to that product
\* written in decimal; a value that is no integer gives thread_limit 1 and
\* total_threads num_threads.
C20_ThreadLimitConfiguration ==
    thread_pc \in {"configured", "limits set"} =>
        /\ args_threads = <<<<"max">>>> => ConfiguredLimit = <<"0">>
        /\ ConfiguredLimit = <<"0">> =>
              /\ thread_limit = 0
              /\ total_threads = None
              /\ thread_pc = "limits set" =>
                    \A name \in LibraryVars : environ[name] = environ_before[1][name]
        /\ \A pair \in LimitDenotes :
              ConfiguredLimit = pair[1] /\ pair[1] # <<"0">> =>
                  /\ thread_limit = pair[2]
                  /\ total_threads = <<num_threads * pair[2]>>
                  /\ thread_pc = "limits set" =>
                        \A name \in LibraryVars :
                            environ[name] = <<IntToStr(num_threads * pair[2])>>
        /\ (\A pair \in LimitDenotes : ConfiguredLimit # pair[1]) =>
              /\ thread_limit = 1
              /\ total_threads = <<num_threads>>
        /\ thread_pc = "limits set" =>
              \A name \in EnvNames \ LibraryVars :
                  environ[name] = environ_before[1][name]

\* C20: a run started with --threads max on a machine whose library variables
\* were set has passed _set_thread_limits with total_threads None
C20_Witness ==
    /\ thread_pc = "limits set"
    /\ args_threads = <<<<"max">>>>
    /\ total_threads = None
    /\ environ["OMP_NUM_THREADS"] = <<<<"8">>>>

\* the run was started with a --threads value other than auto, or with
\* neither BENCHMARK_CPU_CORES nor BENCHMARK_THREAD_LIMIT set
ThreadsFromArgument ==
    \/ args_threads # <<<<"auto">>>>
    \/ environ["BENCHMARK_CPU_CORES"] = None
            /\ environ["BENCHMARK_THREAD_LIMIT"] = None

\* C30: for every --threads value __main__ accepts (auto, max or an integer)
\* the runner's num_threads is at least 1 once it is configured, and in a
\* workload get_available_cores() and get_total_threads() return at least 1.
C30_ThreadCountsAtLeastOne ==
    ThreadsFromArgument =>
        /\ thread_pc \in {"configured", "limits set", "workload"}
                => num_threads >= 1
        /\ thread_pc = "workload" =>
                /\ available_cores.exc = "" /\ available_cores.value >= 1
                /\ workload_threads.exc = "" /\ workload_threads.value >= 1

\* ---------------------------------------------------------------------------
\* The scaling workloads under benchmarks/scaling: the document each main()
\* prints before it returns 0, handed to _run_scaling_test.  Measured times are
\* small integers, the baseline a multiple of each, so that each speedup is
\* exact; of every entry the fields the runner reads are kept.
\* ---------------------------------------------------------------------------

\* the thread_counts lists that start with 1 and those that start with 2
CountsFromOne == <<1, 2, 4, 8>>
CountsFromTwo == <<2, 4, 8, 16>>

ScalingWorkloads ==
    {"lock_contention", "memory_bandwidth", "np_column_compute_mp",
     "np_column_compute_thread", "object_churn_local", "object_churn_shared",
     "pagerank", "parallel_compute", "ref_counting_local", "ref_counting_shared",
     "seq_mem_read", "threading_processing", "vector_ops"}

\* the thread counts a workload tests, cut to the first MaxThreadCounts
ThreadCountsOf(w) ==
    SubSeq(IF w \in {"lock_contention", "object_churn_local", "pagerank"}
           THEN CountsFromTwo ELSE CountsFromOne,
           1, MaxThreadCounts)

\* the workloads whose entries carry ops_per_sec
ReportsOpsPerSec ==
    {"lock_contention", "np_column_compute_thread", "object_churn_shared",
     "parallel_compute"}

\* the workloads that leave out the entry of a thread count whose test failed
SkipsFailedCounts == {"seq_mem_read", "vector_ops"}

BaselineTimes == {2, 4}
TestTimes == {1, 2}

\* one entry of the list of a workload: test_result of its main()
TestResult(w, threads, baseline_duration, duration) ==
    LET speedup == IF w = "seq_mem_read" /\ threads <= 1 THEN 1
                   ELSE baseline_duration \div duration
    IN  IF w = "threading_processing"
        THEN [threads |-> threads,
              thread_results |-> [duration |-> duration, speedup |-> speedup],
              process_results |-> [duration |-> duration, speedup |-> speedup],
              total_steps |-> 4]
        ELSE IF w = "pagerank"
        THEN [threads |-> threads, duration |-> duration, speedup |-> speedup,
              thread_results |-> [duration |-> duration, speedup |-> speedup],
              process_results |-> [duration |-> duration, speedup |-> speedup]]
        ELSE IF w \in ReportsOpsPerSec
        THEN [threads |-> threads, duration |-> duration, speedup |-> speedup,
              ops_per_sec |-> 4 \div duration]
        ELSE [threads |-> threads, duration |-> duration, speedup |-> speedup]

\* the document main() of workload w prints when the baseline took
\* baseline_duration, the test of the i-th thread count took times[i], and the
\* entries of the thread counts in kept were appended
WorkloadOutput(w, baseline_duration, times, kept) ==
    LET counts == ThreadCountsOf(w)
        all == [i \in DOMAIN counts |->
                   TestResult(w, counts[i], baseline_duration, times[i])]
        tests == [i \in 1..Len(kept) |-> all[kept[i]]]
    IN  IF w = "vector_ops"
        THEN [metadata |-> [test_name |-> w],
              baseline |-> [duration |-> baseline_duration],
              scaling_results |-> tests]
        ELSE [metadata |-> [test_name |-> w],
              baseline |-> [duration |-> baseline_duration],
              scaling_tests |-> tests]

\* the increasing sequences of positions 1..n: every choice of entries to keep
RECURSIVE KeptChoices(_)
KeptChoices(n) ==
    IF n = 0 THEN {<<>>}
    ELSE KeptChoices(n - 1) \cup {Append(k, n) : k \in KeptChoices(n - 1)}

AllKept(n) == [i \in 1..n |-> i]

InitWorkload ==
    /\ StatusIdle
    /\ ProcessIdle
    /\ EnvIdle
    /\ RunIdle
    /\ PagerankIdle
    /\ ChurnIdle
    /\ ArrayIdle
    /\ KindIdle
    /\ GilIdle
    /\ ReportIdle
    /\ ScalingIdle
    /\ PoolIdle
    /\ LockIdle
    /\ BarrierIdle
    /\ CrossIdle
    /\ IndexIdle
    /\ ThreadIdle
    /\ workload \in ScalingWorkloads
    /\ workload_document = <<>>
    /\ workload_result = NotProcessed
    /\ workload_pc = "start"

\* the workload runs to its "return 0" and prints its document
WorkloadPrints ==
    /\ workload_pc = "start"
    /\ \E baseline_duration \in BaselineTimes,
          times \in [1..MaxThreadCounts -> TestTimes],
          kept \in IF workload \in SkipsFailedCounts
                   THEN KeptChoices(MaxThreadCounts)
                   ELSE {AllKept(MaxThreadCounts)} :
          workload_document' =
              <<WorkloadOutput(workload, baseline_duration, times, kept)>>
    /\ workload_pc' = "printed"
    /\ UNCHANGED <<workload, workload_result, workloadFrame>>

\* _run_scaling_test with one iteration: the child of every environment prints
\* the workload's document and exits with code 0
RunScalingTest ==
    /\ workload_pc = "printed"
    /\ workload_result' =
           _run_scaling_test(
               PYTHON_VERSIONS,
               [e \in DOMAIN PYTHON_VERSIONS |->
                   <<ExitedZero(JsonDumps(workload_document[1]))>>],
               BASELINE_VERSION)
    /\ workload_pc' = "processed"
    /\ UNCHANGED <<workload, workload_document, workloadFrame>>

NextWorkload == WorkloadPrints \/ RunScalingTest

SpecWorkload == InitWorkload /\ [][NextWorkload]_vars

\* C22 (as claimed): whatever scaling workload printed its document on success,
\* _run_scaling_test and _process_scaling_results process it without raising
\* and return a result for every version.
C22_SuccessfulOutputIsProcessed ==
    workload_pc = "processed" =>
        /\ workload_result.exc = ""
        /\ Len(workload_result.returned) = Len(PYTHON_VERSIONS)

\* ---------------------------------------------------------------------------
\* The results file of --report json and scripts/json_to_html.py: the scaling
\* results of a workload are serialized by BenchmarkJSONEncoder and read back by
\* create_benchmark_page.
\* ---------------------------------------------------------------------------

\* BenchmarkJSONEncoder.default on a StatisticalResult: its __dict__
EncodeStatistics(stats) ==
    [mean |-> stats.mean, median |-> stats.median,
     stddev |-> <<"sqrt", stats.variance>>,
     min |-> stats.min, max |-> stats.max, iterations |-> stats.iterations]

\* ... on a ScalingDataPoint
EncodeDataPoint(point) ==
    [thread_count |-> point.thread_count, duration |-> point.duration,
     throughput |-> point.throughput, cpu_usage |-> point.cpu_usage,
     memory_usage |-> point.memory_usage]

\* ... on a ScalingBenchmarkResult
EncodeScalingResult(result) ==
    [status |-> result.status,
     base_duration |-> result.base_duration,
     scaling_factor |-> result.scaling_factor,
     max_threads |-> result.max_threads,
     efficiency |-> result.efficiency,
     relative_performance |-> result.relative_performance,
     statistical_data |-> EncodeStatistics(result.statistical_data),
     scaling_data |-> [i \in DOMAIN result.scaling_data |->
                          EncodeDataPoint(result.scaling_data[i])]]

\* the file json.dump writes: results is the BenchmarkSuite with one scaling test
JsonReport(test_name, processed_results) ==
    [results |->
        [regular_tests |-> <<>>,
         scaling_tests |->
            DictSet(<<>>, test_name,
                    [i \in DOMAIN processed_results |->
                        [key |-> processed_results[i].key,
                         value |-> EncodeScalingResult(processed_results[i].value)]]),
         versions_info |-> get_versions_info],
     run_config |-> [category |-> "scaling", iterations |-> 1, threads |-> "auto"]]

\* create_scaling_plots(test_name, test_data, ...)
create_scaling_plots(test_data) ==
    IF test_data = <<>> THEN "StopIteration"
    ELSE LET first_version == test_data[1].value
         IN  IF first_version.scaling_data = <<>> THEN "IndexError"
             ELSE IF "metrics" \notin DOMAIN first_version.scaling_data[1]
                  THEN "KeyError"
             ELSE IF \E v \in DOMAIN test_data :
                        \E i \in DOMAIN test_data[v].value.scaling_data :
                            {"thread_count", "speedup"} \
                                DOMAIN test_data[v].value.scaling_data[i] # {}
                  THEN "KeyError"
             ELSE ""

\* _add_scaling_test_statistics(html_content, test_data)
_add_scaling_test_statistics(test_data) ==
    IF \E v \in DOMAIN test_data :
           \/ {"statistical_data", "scaling_factor", "efficiency", "max_threads"} \
                  DOMAIN test_data[v].value # {}
           \/ "median" \notin DOMAIN test_data[v].value.statistical_data
    THEN "KeyError"
    ELSE ""

\* create_benchmark_page(json_file, output_dir, run_id) on a file with scaling
\* tests only: nothing is written when no test has results, and the plots are
\* made before the statistics table
create_benchmark_page(data) ==
    LET scaling_tests == data.results.scaling_tests
    IN  IF scaling_tests = <<>> \/ scaling_tests[1].value = <<>>
        THEN [exc |-> "", written |-> FALSE]
        ELSE LET plots == create_scaling_plots(scaling_tests[1].value)
                 table == _add_scaling_test_statistics(scaling_tests[1].value)
             IN  IF plots # "" THEN [exc |-> plots, written |-> FALSE]
                 ELSE IF table # "" THEN [exc |-> table, written |-> FALSE]
                 ELSE [exc |-> "", written |-> TRUE]

\* __main__ of benchmark_runner after run_all returned: json.dump of the results
WriteJsonReport ==
    /\ workload_pc = "processed"
    /\ workload_result.exc = ""
    /\ report_file = None
    /\ report_file' = <<JsonReport(workload, workload_result.returned)>>
    /\ UNCHANGED <<page, reportFrame>>

CreateBenchmarkPage ==
    /\ report_file # None
    /\ page = None
    /\ page' = <<create_benchmark_page(report_file[1])>>
    /\ UNCHANGED <<report_file, reportFrame>>

NextReport ==
    WorkloadPrints \/ RunScalingTest \/ WriteJsonReport \/ CreateBenchmarkPage

SpecReport == InitWorkload /\ [][NextReport]_vars

\* C23 (as claimed): create_benchmark_page renders the results file the runner
\* wrote: it finds every field it reads of a scaling result and of its
\* scaling-data points, and writes the page.
C23_ReportIsRendered ==
    page # None => page[1].exc = "" /\ page[1].written

\* ---------------------------------------------------------------------------
\* benchmarks/tests/gil/test_lock_patterns.py: three phases, each with
\* total_threads worker threads that main starts and joins.  The statement
\* results[k] += 1 is a read of results[k] followed by a write.
\* ---------------------------------------------------------------------------

GilWorkers == 1..GilThreads

GilPhases == <<"heavy_contention", "per_thread", "try_lock", "done">>

\* the phase after phase p in the loop of main
NextPhase(p) ==
    GilPhases[(CHOOSE i \in DOMAIN GilPhases : GilPhases[i] = p) + 1]

\* the lock worker t takes in a phase: patterns[phase], or
\* patterns['per_thread'][thread_id]
LockOfWorker(phase, t) ==
    IF phase = "per_thread" THEN <<phase, t>> ELSE <<phase, 0>>

\* the end of a "with lock:" block
WithExit(held, lock) == held \ {lock}

KeepLock(held, lock) == held

\* patterns['try_lock'].release()
ReleaseLock(held, lock) == held \ {lock}

InitGil ==
    /\ StatusIdle
    /\ ProcessIdle
    /\ EnvIdle
    /\ RunIdle
    /\ PagerankIdle
    /\ ChurnIdle
    /\ ArrayIdle
    /\ KindIdle
    /\ ScalingIdle
    /\ PoolIdle
    /\ LockIdle
    /\ BarrierIdle
    /\ CrossIdle
    /\ IndexIdle
    /\ ThreadIdle
    /\ WorkloadIdle
    /\ ReportIdle
    /\ gil_phase = "heavy_contention"
    /\ gil_locks = {}
    /\ gil_results = [heavy_contention |-> 0, per_thread |-> 0, try_lock |-> 0]
    /\ gil_pc = [t \in GilWorkers |-> "idle"]
    /\ gil_count = [t \in GilWorkers |-> 0]
    /\ gil_read = [t \in GilWorkers |-> 0]

\* main creates the threads of the phase and starts them
GilStartThreads ==
    /\ gil_phase # "done"
    /\ \A t \in GilWorkers : gil_pc[t] = "idle"
    /\ gil_pc' = [t \in GilWorkers |-> "loop"]
    /\ gil_count' = [t \in GilWorkers |-> 0]
    /\ UNCHANGED <<gil_phase, gil_locks, gil_results, gil_read, gilFrame>>

\* "with patterns[...]:" of heavy_contention_worker and per_thread_worker
GilAcquire(t) ==
    /\ gil_phase \in {"heavy_contention", "per_thread"}
    /\ gil_pc[t] = "loop"
    /\ gil_count[t] < GilIterations
    /\ LockOfWorker(gil_phase, t) \notin gil_locks
    /\ gil_locks' = gil_locks \cup {LockOfWorker(gil_phase, t)}
    /\ gil_pc' = [gil_pc EXCEPT ![t] = "read"]
    /\ UNCHANGED <<gil_phase, gil_results, gil_count, gil_read, gilFrame>>

\* "if patterns['try_lock'].acquire(blocking=False):" of try_lock_worker: a
\* failed attempt goes round the while loop
GilTryAcquire(t) ==
    /\ gil_phase = "try_lock"
    /\ gil_pc[t] = "loop"
    /\ gil_count[t] < GilIterations
    /\ IF LockOfWorker(gil_phase, t) \notin gil_locks
       THEN /\ gil_locks' = gil_locks \cup {LockOfWorker(gil_phase, t)}
            /\ gil_pc' = [gil_pc EXCEPT ![t] = "read"]
       ELSE UNCHANGED <<gil_locks, gil_pc>>
    /\ UNCHANGED <<gil_phase, gil_results, gil_count, gil_read, gilFrame>>

\* the read of results[phase] += 1
GilRead(t) ==
    /\ gil_pc[t] = "read"
    /\ gil_read' = [gil_read EXCEPT ![t] = gil_results[gil_phase]]
    /\ gil_pc' = [gil_pc EXCEPT ![t] = "write"]
    /\ UNCHANGED <<gil_phase, gil_locks, gil_results, gil_count, gilFrame>>

\* the write of results[phase] += 1, and the pass counted
GilWrite(t) ==
    /\ gil_pc[t] = "write"
    /\ gil_results' = [gil_results EXCEPT ![gil_phase] = gil_read[t] + 1]
    /\ gil_count' = [gil_count EXCEPT ![t] = @ + 1]
    /\ gil_pc' = [gil_pc EXCEPT ![t] = "release"]
    /\ UNCHANGED <<gil_phase, gil_locks, gil_read, gilFrame>>

\* the end of the with block, or the finally clause of try_lock_worker
GilRelease(t) ==
    /\ gil_pc[t] = "release"
    /\ gil_locks' = IF gil_phase = "try_lock"
                     THEN ReleaseLock(gil_locks, LockOfWorker(gil_phase, t))
                     ELSE WithExit(gil_locks, LockOfWorker(gil_phase, t))
    /\ gil_pc' = [gil_pc EXCEPT ![t] = "loop"]
    /\ UNCHANGED <<gil_phase, gil_results, gil_count, gil_read, gilFrame>>

\* the loop of the worker is over
GilExit(t) ==
    /\ gil_pc[t] = "loop"
    /\ gil_count[t] = GilIterations
    /\ gil_pc' = [gil_pc EXCEPT ![t] = "done"]
    /\ UNCHANGED <<gil_phase, gil_locks, gil_results, gil_count, gil_read, gilFrame>>

\* "for t in threads: t.join()", and main goes on to the next phase; what the
\* ended threads had read is gone with them
GilJoin ==
    /\ gil_phase # "done"
    /\ \A t \in GilWorkers : gil_pc[t] = "done"
    /\ gil_phase' = NextPhase(gil_phase)
    /\ gil_pc' = [t \in GilWorkers |->
                     IF NextPhase(gil_phase) = "done" THEN "done" ELSE "idle"]
    /\ gil_read' = [t \in GilWorkers |-> 0]
    /\ UNCHANGED <<gil_locks, gil_results, gil_count, gilFrame>>

GilWorkerStep(t) ==
    \/ GilAcquire(t) \/ GilTryAcquire(t) \/ GilRead(t)
    \/ GilWrite(t) \/ GilRelease(t) \/ GilExit(t)

NextGil == GilStartThreads \/ GilJoin \/ \E t \in GilWorkers : GilWorkerStep(t)

SpecGil == InitGil /\ [][NextGil]_vars

\* the phases whose threads main has joined
JoinedPhases ==
    {GilPhases[i] : i \in 1..((CHOOSE j \in DOMAIN GilPhases :
                                  GilPhases[j] = gil_phase) - 1)}

\* C24 (as claimed): once the threads of a phase are joined, the phase's counter
\* in results equals iterations * total_threads.
C24_NoIncrementLostInAnyPhase ==
    \A phase \in JoinedPhases :
        gil_results[phase] = GilIterations * GilThreads

\* main at the start of the try_lock phase: the heavy_contention counter is
\* complete, the per_thread counter has lost any number of increments but the
\* last ones of two passes
InitTryLock ==
    /\ StatusIdle
    /\ ProcessIdle
    /\ EnvIdle
    /\ RunIdle
    /\ PagerankIdle
    /\ ChurnIdle
    /\ ArrayIdle
    /\ KindIdle
    /\ ScalingIdle
    /\ PoolIdle
    /\ LockIdle
    /\ BarrierIdle
    /\ CrossIdle
    /\ IndexIdle
    /\ ThreadIdle
    /\ WorkloadIdle
    /\ ReportIdle
    /\ gil_phase = "try_lock"
    /\ gil_locks = {}
    /\ \E lost \in (IF GilIterations < 2 THEN GilIterations ELSE 2)
                        ..(GilIterations * GilThreads) :
          gil_results = [heavy_contention |-> GilIterations * GilThreads,
                         per_thread |-> lost, try_lock |-> 0]
    /\ gil_pc = [t \in GilWorkers |-> "idle"]
    /\ gil_count = [t \in GilWorkers |-> GilIterations]
    /\ gil_read = [t \in GilWorkers |-> 0]

TryLockWorkerStep(t) ==
    \/ GilTryAcquire(t) \/ GilRead(t) \/ GilWrite(t) \/ GilRelease(t) \/ GilExit(t)

NextTryLock ==
    GilStartThreads \/ GilJoin \/ \E t \in GilWorkers : TryLockWorkerStep(t)

\* the try_lock phase, where every thread that can take a step eventually
\* takes one
SpecTryLock ==
    /\ InitTryLock
    /\ [][NextTryLock]_vars
    /\ WF_vars(GilStartThreads)
    /\ WF_vars(GilJoin)
    /\ \A t \in GilWorkers : WF_vars(TryLockWorkerStep(t))

\* the try_lock phase is over: every worker made its passes and the lock is free
TryLockPhaseOver ==
    /\ gil_phase = "done"
    /\ \A t \in GilWorkers : gil_pc[t] = "done" /\ gil_count[t] = GilIterations
    /\ gil_locks = {}

\* C29: under fair scheduling the try_lock phase ends: every try_lock_worker
\* completes `iterations` successful acquisitions and exits, and the lock is
\* free; and a worker that is not between an acquisition and its release does
\* not hold the lock.
C29_TryLockPhaseTerminates ==
    /\ (gil_phase = "try_lock") ~> TryLockPhaseOver
    /\ [](gil_phase = "try_lock"
             /\ (\A t \in GilWorkers : gil_pc[t] \in {"idle", "loop", "done"})
          => gil_locks = {})

\* C29: the try_lock workers have all exited with their passes made
C29_Witness ==
    /\ TryLockPhaseOver
    /\ gil_results.try_lock = GilIterations * GilThreads

\* ---------------------------------------------------------------------
\* The parallel-processing workloads (benchmarks/tests/workload/parallel)
\* ---------------------------------------------------------------------

\* the largest value an array item of typecode 'i' (a C int) holds
IntMax == 2147483647

data_size == 1000000

\* the thread count of the pre-allocated workload
PreallocatedThreads == 4

ParallelWorkloads == {"preallocated", "multiprocessing", "process_executor"}

\* mp.cpu_count() of the machine
CpuCounts == 1..MaxCpus

\* item * item + 1 is within the range of typecode 'i'; computed by a
\* division, for the product of a larger item is beyond the 32 bits
FitsTypecodeI(item) == item = 0 \/ item <= (IntMax - 1) \div item

Min2(a, b) == IF a <= b THEN a ELSE b

\* the chunks main() builds for the process pools: range(0, data_size,
\* chunk_size) with each chunk's end
ProcessChunks(num_processes) ==
    LET chunk_size == data_size \div num_processes
    IN  [k \in 1..((data_size + chunk_size - 1) \div chunk_size) |->
            [start |-> (k - 1) * chunk_size,
             end |-> Min2(k * chunk_size, data_size)]]

InitArray ==
    /\ StatusIdle
    /\ ProcessIdle
    /\ EnvIdle
    /\ RunIdle
    /\ PagerankIdle
    /\ ChurnIdle
    /\ ScalingIdle
    /\ PoolIdle
    /\ LockIdle
    /\ BarrierIdle
    /\ CrossIdle
    /\ IndexIdle
    /\ ThreadIdle
    /\ WorkloadIdle
    /\ ReportIdle
    /\ GilIdle
    /\ KindIdle
    /\ array_workload \in {<<w>> : w \in ParallelWorkloads}
    /\ array_pc = "main"
    /\ array_i = 0
    /\ array_end = 0
    /\ array_results = <<>>
    /\ array_error = <<>>

\* test_preallocated_processing.main submits one process_chunk per thread;
\* the chunks write disjoint indices, and the model follows one of them
SubmitChunks ==
    /\ array_pc = "main"
    /\ array_workload = <<"preallocated">>
    /\ \E k \in 0..(PreallocatedThreads - 1) :
        LET chunk_size == data_size \div PreallocatedThreads
        IN  /\ array_i' = k * chunk_size
            /\ array_end' = Min2((k + 1) * chunk_size, data_size)
    /\ array_pc' = "loop"
    /\ UNCHANGED <<array_workload, array_results, array_error>>
    /\ UNCHANGED arrayFrame

\* test_multiprocessing_processing.main: pool.starmap pickles each chunk's
\* arguments for the worker processes, and the shared array among them
\* refuses to be pickled
PoolStarmap ==
    /\ array_pc = "main"
    /\ array_workload = <<"multiprocessing">>
    /\ \E cpus \in CpuCounts :
        LET chunks == ProcessChunks(cpus)
        IN  /\ array_i' = chunks[1].start
            /\ array_end' = chunks[1].end
    /\ array_error' = <<"RuntimeError">>
    /\ array_pc' = "raised"
    /\ UNCHANGED <<array_workload, array_results>>
    /\ UNCHANGED arrayFrame

\* test_process_executor_processing.main: executor.map pickles the lambda
\* for the worker processes, and a lambda is not picklable
ExecutorMap ==
    /\ array_pc = "main"
    /\ array_workload = <<"process_executor">>
    /\ \E cpus \in CpuCounts :
        LET chunks == ProcessChunks(cpus)
        IN  /\ array_i' = chunks[1].start
            /\ array_end' = chunks[1].end
    /\ array_error' = <<"PicklingError">>
    /\ array_pc' = "raised"
    /\ UNCHANGED <<array_workload, array_results>>
    /\ UNCHANGED arrayFrame

\* one pass of process_chunk's loop: results[i] = data[i] * data[i] + 1
\* with data[i] = i; the array raises OverflowError for a value out of
\* range, and f.result() raises it again in main()
ProcessChunkStep ==
    /\ array_pc = "loop"
    /\ IF array_i = array_end
       THEN /\ array_pc' = "done"
            /\ UNCHANGED <<array_i, array_results, array_error>>
       ELSE IF FitsTypecodeI(array_i)
       THEN /\ array_results' =
                <<[index |-> array_i, value |-> array_i * array_i + 1]>>
            /\ array_i' = array_i + 1
            /\ UNCHANGED <<array_pc, array_error>>
       ELSE /\ array_error' = <<"OverflowError">>
            /\ array_pc' = "raised"
            /\ UNCHANGED <<array_i, array_results>>
    /\ UNCHANGED <<array_workload, array_end>>
    /\ UNCHANGED arrayFrame

NextArray == SubmitChunks \/ PoolStarmap \/ ExecutorMap \/ ProcessChunkStep

SpecArray == InitArray /\ [][NextArray]_vars

\* C25: in the three parallel-processing workloads no store raises and the
\* workload does not end in an exception: every value data[i]*data[i]+1 of
\* a chunk fits the 'i' array and is stored as computed.
C25_EveryValueFitsAndWorkloadCompletes ==
    /\ array_error = <<>>
    /\ array_pc /= "raised"
    /\ \A k \in 1..Len(array_results) :
        array_results[k].value =
            array_results[k].index * array_results[k].index + 1

\* ---------------------------------------------------------------------
\* The object-churn scaling workloads
\* (benchmarks/scaling/test_object_churn_{shared,local}_scaling.py)
\* ---------------------------------------------------------------------

base_iterations == 1000000

pool_size == 100

ChurnWorkloads == {"object_churn_shared", "object_churn_local"}

thread_counts(w) ==
    IF w = "object_churn_shared"
    THEN <<1, 2, 4, 8, 16, 32>>
    ELSE <<2, 4, 8, 16, 32, 48, 64, 96, 112, 128>>

\* thread_worker: num_passes passes over the pool, each with two reference
\* assignments (refs[i] = objects[i]; refs[i] = None) per object; the
\* number of assignments the nested loops perform
thread_worker(worker_iterations) ==
    LET num_passes == worker_iterations \div pool_size
    IN  num_passes * pool_size * 2

InitChurn ==
    /\ StatusIdle
    /\ ProcessIdle
    /\ EnvIdle
    /\ RunIdle
    /\ PagerankIdle
    /\ ScalingIdle
    /\ PoolIdle
    /\ LockIdle
    /\ BarrierIdle
    /\ CrossIdle
    /\ IndexIdle
    /\ ThreadIdle
    /\ WorkloadIdle
    /\ ReportIdle
    /\ GilIdle
    /\ KindIdle
    /\ ArrayIdle
    /\ churn_workload \in ChurnWorkloads
    /\ churn_pc = "main"
    /\ churn_baseline = <<>>
    /\ churn_k = 0
    /\ churn_finished = 0
    /\ churn_performed = 0
    /\ churn_tests = <<>>

\* main: the baseline measurement, one thread_worker call in the main thread
ChurnBaseline ==
    /\ churn_pc = "main"
    /\ churn_baseline' = <<[total_ops |-> base_iterations * 2,
                            performed |-> thread_worker(base_iterations)]>>
    /\ churn_k' = 1
    /\ churn_pc' = "next"
    /\ UNCHANGED <<churn_workload, churn_finished, churn_performed, churn_tests>>
    /\ UNCHANGED churnFrame

\* run_threaded_test: the threads of the next thread count are started
RunThreadedTest ==
    /\ churn_pc = "next"
    /\ churn_k <= Len(thread_counts(churn_workload))
    /\ churn_finished' = 0
    /\ churn_performed' = 0
    /\ churn_pc' = "running"
    /\ UNCHANGED <<churn_workload, churn_baseline, churn_k, churn_tests>>
    /\ UNCHANGED churnFrame

\* one of the started workers runs thread_worker(iterations_per_thread) to
\* its end; the workers are alike, so the model counts those that finished
ThreadWorkerRuns ==
    /\ churn_pc = "running"
    /\ LET churn_threads == thread_counts(churn_workload)[churn_k]
           iterations_per_thread == base_iterations \div churn_threads
       IN  /\ churn_finished < churn_threads
           /\ churn_performed' =
                churn_performed + thread_worker(iterations_per_thread)
    /\ churn_finished' = churn_finished + 1
    /\ UNCHANGED <<churn_workload, churn_pc, churn_baseline, churn_k, churn_tests>>
    /\ UNCHANGED churnFrame

\* main: every thread is joined and the test result is appended
AppendTestResult ==
    /\ churn_pc = "running"
    /\ LET churn_threads == thread_counts(churn_workload)[churn_k]
           iterations_per_thread == base_iterations \div churn_threads
           total_ref_ops == iterations_per_thread * churn_threads * 2
       IN  /\ churn_finished = churn_threads
           /\ churn_tests' = Append(churn_tests,
                [threads |-> churn_threads,
                 total_ops |-> total_ref_ops,
                 performed |-> churn_performed])
    /\ churn_k' = churn_k + 1
    /\ churn_pc' = "next"
    /\ UNCHANGED <<churn_workload, churn_baseline, churn_finished, churn_performed>>
    /\ UNCHANGED churnFrame

\* main: print(json.dumps(results))
ChurnPrint ==
    /\ churn_pc = "next"
    /\ churn_k > Len(thread_counts(churn_workload))
    /\ churn_pc' = "done"
    /\ UNCHANGED <<churn_workload, churn_baseline, churn_k, churn_finished,
                   churn_performed, churn_tests>>
    /\ UNCHANGED churnFrame

NextChurn ==
    \/ ChurnBaseline
    \/ RunThreadedTest
    \/ ThreadWorkerRuns
    \/ AppendTestResult
    \/ ChurnPrint

SpecChurn == InitChurn /\ [][NextChurn]_vars

\* C26: every test result of the object-churn workloads reports as its
\* operation count (iterations_per_thread x num_threads x 2) the number of
\* reference assignments its worker threads performed.
C26_ReportedOpsEqualPerformedAssignments ==
    \A k \in 1..Len(churn_tests) :
        churn_tests[k].total_ops = churn_tests[k].performed

\* ---------------------------------------------------------------------
\* PageRank (benchmarks/scaling/test_pagerank_scaling.py)
\* ---------------------------------------------------------------------

\* the largest matrix size and iteration count that are explored
MaxPages == 3
MaxPagerankIterations == 2

\* DAMPING = 0.85; the scores are rationals <<numerator, denominator>> in
\* lowest terms. Both implementations add the terms of a page in the same
\* order, and the threaded one adds only zeros from the other chunks, so
\* the rounding of the floating-point sums is the same in both.
DAMPING == <<17, 20>>

RECURSIVE GCD(_, _)
GCD(a, b) == IF b = 0 THEN a ELSE GCD(b, a % b)

RatNorm(a) ==
    LET g == GCD(a[1], a[2])
    IN  IF a[1] = 0 THEN <<0, 1>> ELSE <<a[1] \div g, a[2] \div g>>

RatAdd(a, b) ==
    LET g == GCD(a[2], b[2])
    IN  RatNorm(<<a[1] * (b[2] \div g) + b[1] * (a[2] \div g),
                  a[2] * (b[2] \div g)>>)

RatMul(a, b) ==
    LET x == RatNorm(<<a[1], b[2]>>)
        y == RatNorm(<<b[1], a[2]>>)
    IN  <<x[1] * y[1], x[2] * y[2]>>

RatDivInt(a, k) == RatNorm(<<a[1], a[2] * k>>)

PageIndices(size) == 0..(size - 1)

\* matrices of a given size, as [size, links] with <<j, i>> in links when
\* matrix[j, i] is set: a ring, a chain, the full matrix, and a star
SampleMatrices(size) ==
    LET pages == PageIndices(size)
    IN  { [size |-> size, links |-> {<<j, (j + 1) % size>> : j \in pages}],
          [size |-> size,
           links |-> {<<j, j + 1>> : j \in pages \ {size - 1}}],
          [size |-> size, links |-> pages \X pages],
          [size |-> size,
           links |-> {<<0, i>> : i \in pages \ {0}}
                        \cup {<<j, 0>> : j \in pages \ {0}}] }

\* np.where(matrix[:, i])[0]
Incoming(matrix, i) == {j \in PageIndices(matrix.size) : <<j, i>> \in matrix.links}

\* np.sum(matrix[j])
RowSum(matrix, j) ==
    Cardinality({i \in PageIndices(matrix.size) : <<j, i>> \in matrix.links})

\* for j in incoming: acc += scores[j] / np.sum(matrix[j]), for the
\* incoming pages from index j on, in ascending order
RECURSIVE AddIncoming(_, _, _, _, _)
AddIncoming(matrix, page_scores, i, j, acc) ==
    IF j >= matrix.size THEN acc
    ELSE IF j \in Incoming(matrix, i)
    THEN AddIncoming(matrix, page_scores, i, j + 1,
            RatAdd(acc, RatDivInt(page_scores[j], RowSum(matrix, j))))
    ELSE AddIncoming(matrix, page_scores, i, j + 1, acc)

\* scores = (1 - DAMPING) / size + DAMPING * new_scores
Damped(size, summed) ==
    [i \in PageIndices(size) |->
        RatAdd(RatDivInt(<<DAMPING[2] - DAMPING[1], DAMPING[2]>>, size),
               RatMul(DAMPING, summed[i]))]

InitialScores(size) == [i \in PageIndices(size) |-> <<1, size>>]

\* pagerank_single after num_iterations iterations
RECURSIVE pagerank_single(_, _)
pagerank_single(matrix, num_iterations) ==
    IF num_iterations = 0 THEN InitialScores(matrix.size)
    ELSE LET before == pagerank_single(matrix, num_iterations - 1)
             summed == [i \in PageIndices(matrix.size) |->
                            AddIncoming(matrix, before, i, 0, <<0, 1>>)]
         IN  Damped(matrix.size, summed)

\* the range(0, size, chunk_size) of pagerank_threaded as (start, end) pairs
RECURSIVE ChunksFrom(_, _, _)
ChunksFrom(i, size, chunk_size) ==
    IF i >= size THEN <<>>
    ELSE <<[start_idx |-> i, end_idx |-> Min2(i + chunk_size, size)]>>
            \o ChunksFrom(i + chunk_size, size, chunk_size)

OneChunkPerThread(size, workers) ==
    SubSeq(ChunksFrom(0, size, size \div workers), 1, workers)

Chunks(size, workers) == ChunksFrom(0, size, size \div workers)

PagerankChunks == Chunks(pr_input.matrix.size, pr_input.num_threads)

\* _thread_worker's local_scores for one chunk
LocalScores(matrix, page_scores, chunk) ==
    [i \in PageIndices(matrix.size) |->
        IF chunk.start_idx <= i /\ i < chunk.end_idx
        THEN AddIncoming(matrix, page_scores, i, 0, <<0, 1>>)
        ELSE <<0, 1>>]

InitPagerank ==
    /\ StatusIdle
    /\ ProcessIdle
    /\ EnvIdle
    /\ RunIdle
    /\ ScalingIdle
    /\ PoolIdle
    /\ LockIdle
    /\ BarrierIdle
    /\ CrossIdle
    /\ IndexIdle
    /\ ThreadIdle
    /\ WorkloadIdle
    /\ ReportIdle
    /\ GilIdle
    /\ KindIdle
    /\ ArrayIdle
    /\ ChurnIdle
    /\ \E size \in 1..MaxPages :
        pr_input \in [matrix : SampleMatrices(size),
                      num_threads : 1..size,
                      num_iterations : 1..MaxPagerankIterations]
    /\ pr_main = "call"
    /\ pr_iter = 0
    /\ pr_scores = <<>>
    /\ pr_new_scores = <<>>
    /\ pr_lock = 0
    /\ pr_pc = <<>>
    /\ pr_local = <<>>

\* pagerank_threaded: scores = np.ones(size) / size and the chunks
PagerankThreaded ==
    /\ pr_main = "call"
    /\ pr_scores' = InitialScores(pr_input.matrix.size)
    /\ pr_main' = "iteration"
    /\ UNCHANGED <<pr_input, pr_iter, pr_new_scores, pr_lock, pr_pc, pr_local>>
    /\ UNCHANGED pagerankFrame

\* the head of an iteration: new_scores, a new lock, and one _thread_worker
\* call per chunk handed to the executor
BeginIteration ==
    /\ pr_main = "iteration"
    /\ pr_iter < pr_input.num_iterations
    /\ pr_new_scores' = [i \in PageIndices(pr_input.matrix.size) |-> <<0, 1>>]
    /\ pr_lock' = 0
    /\ pr_pc' = [c \in 1..Len(PagerankChunks) |-> "queued"]
    /\ pr_local' = [c \in 1..Len(PagerankChunks) |-> <<>>]
    /\ pr_main' = "executor"
    /\ UNCHANGED <<pr_input, pr_iter, pr_scores>>
    /\ UNCHANGED pagerankFrame

\* a pool thread takes chunk c and computes its local_scores; the pool has
\* max_workers = num_threads threads
WorkerCompute(c) ==
    /\ pr_main = "executor"
    /\ pr_pc[c] = "queued"
    /\ Cardinality({d \in DOMAIN pr_pc : pr_pc[d] \in {"computed", "locked"}})
            < pr_input.num_threads
    /\ pr_local' = [pr_local EXCEPT
            ![c] = LocalScores(pr_input.matrix, pr_scores, PagerankChunks[c])]
    /\ pr_pc' = [pr_pc EXCEPT ![c] = "computed"]
    /\ UNCHANGED <<pr_input, pr_main, pr_iter, pr_scores, pr_new_scores, pr_lock>>
    /\ UNCHANGED pagerankFrame

\* with lock: (entry)
WorkerAcquire(c) ==
    /\ pr_main = "executor"
    /\ pr_pc[c] = "computed"
    /\ pr_lock = 0
    /\ pr_lock' = c
    /\ pr_pc' = [pr_pc EXCEPT ![c] = "locked"]
    /\ UNCHANGED <<pr_input, pr_main, pr_iter, pr_scores, pr_new_scores, pr_local>>
    /\ UNCHANGED pagerankFrame

\* new_scores += local_scores, and the lock is released
WorkerAdd(c) ==
    /\ pr_main = "executor"
    /\ pr_pc[c] = "locked"
    /\ pr_new_scores' = [i \in DOMAIN pr_new_scores |->
                            RatAdd(pr_new_scores[i], pr_local[c][i])]
    /\ pr_lock' = 0
    /\ pr_pc' = [pr_pc EXCEPT ![c] = "done"]
    /\ UNCHANGED <<pr_input, pr_main, pr_iter, pr_scores, pr_local>>
    /\ UNCHANGED pagerankFrame

\* the executor's with block ends once every call has returned; then
\* scores = (1 - DAMPING) / size + DAMPING * new_scores
EndIteration ==
    /\ pr_main = "executor"
    /\ \A c \in DOMAIN pr_pc : pr_pc[c] = "done"
    /\ pr_scores' = Damped(pr_input.matrix.size, pr_new_scores)
    /\ pr_iter' = pr_iter + 1
    /\ pr_main' = "iteration"
    /\ UNCHANGED <<pr_input, pr_new_scores, pr_lock, pr_pc, pr_local>>
    /\ UNCHANGED pagerankFrame

\* return scores
PagerankReturn ==
    /\ pr_main = "iteration"
    /\ pr_iter = pr_input.num_iterations
    /\ pr_main' = "returned"
    /\ UNCHANGED <<pr_input, pr_iter, pr_scores, pr_new_scores, pr_lock,
                   pr_pc, pr_local>>
    /\ UNCHANGED pagerankFrame

NextPagerank ==
    \/ PagerankThreaded
    \/ BeginIteration
    \/ \E c \in DOMAIN pr_pc : WorkerCompute(c) \/ WorkerAcquire(c) \/ WorkerAdd(c)
    \/ EndIteration
    \/ PagerankReturn

SpecPagerank == InitPagerank /\ [][NextPagerank]_vars

\* C27: for every matrix, iteration count, thread count between 1 and size
\* and interleaving of the workers, pagerank_threaded returns the scores
\* pagerank_single returns; every page index lies in exactly one chunk; and
\* a worker is adding to new_scores only while it holds the lock.
C27_ThreadedScoresEqualSingle ==
    /\ pr_main = "returned"
        => pr_scores = pagerank_single(pr_input.matrix, pr_input.num_iterations)
    /\ pr_main /= "idle"
        => \A i \in PageIndices(pr_input.matrix.size) :
             Cardinality({c \in 1..Len(PagerankChunks) :
                /\ PagerankChunks[c].start_idx <= i
                /\ i < PagerankChunks[c].end_idx}) = 1
    /\ pr_main = "executor"
        => \A c \in DOMAIN pr_pc : pr_pc[c] = "locked" <=> pr_lock = c

\* C27: a call with more chunks than threads and two iterations has returned
C27_Witness ==
    /\ pr_main = "returned"
    /\ pr_input.num_threads >= 2
    /\ Len(PagerankChunks) > pr_input.num_threads
    /\ pr_input.num_iterations >= 2
    /\ pr_scores = pagerank_single(pr_input.matrix, pr_input.num_iterations)

====
